---- MODULE Spec2Model ----
(***************************************************************************)
(* State-machine model of the sampling-drum playback / sequencing engine   *)
(* (src/src/audio/AudioEngine.ts) together with the parts of Tone.js the   *)
(* engine drives: the Transport clock, the Tone.Sequence built by          *)
(* updateSequence, the per-pad Tone.Player nodes and the audio context.    *)
(*                                                                         *)
(* Representation.                                                         *)
(*  - JavaScript arrays are functions over 0..n-1 (Len0 is their length).  *)
(*  - Gains, velocities, pans and normalised trim times are kept in tenths *)
(*    (0.8 is 8, 1.0 is 10).                                               *)
(*  - this.samples and this.patterns are REFERENCES to array objects: the  *)
(*    array objects live in samplesHeap / patternsHeap and the engine and  *)
(*    every Project value hold indices into these heaps.                   *)
(***************************************************************************)
EXTENDS Integers, Sequences, FiniteSets, Bags, TLC

(***************************************************************************)
(* Program constants.                                                      *)
(***************************************************************************)
NumPads == 16
DefaultLength == 16
DefaultVelocity == 8
DefaultVolume == 8
DefaultBpm == 120
PPQ == 192
QuantizeModulus == 16
TestVelocity == 8

(***************************************************************************)
(* Bounds of the model.                                                    *)
(***************************************************************************)
TickQuantum == 32
MaxTicks == 96
MaxPatterns == 2
MaxNow == 1
MaxBuffers == 2
ImportLength == 2
MaxRetries == 2
MaxInFlight == 2
MaxClicks == 2
MaxTimers == 2
MaxHandlers == 2
MaxRepeats == 2

(***************************************************************************)
(* Inputs the operations are exercised with.                               *)
(***************************************************************************)
Pads == 0..(NumPads - 1)
ModelPads == {3, 5}
ToggleCells == {<<3, 0>>, <<5, 1>>}
VelocityCells == {<<3, 0>>}
StepVelocities == {5}
TriggerVelocities == {6}
BpmInputs == {90}
PatternIndexInputs == {-1, 0, 1, 2}
TrimInputs == {<<"startTime", 5>>, <<"endTime", 5>>}
MixInputs == {<<"volume", 5>>, <<"pan", -5>>}
MasterInputs == {5}
LoadEdits == {<<"startTime", 5>>, <<"volume", 5>>}

VARIABLES
    samplesHeap,    \* array objects holding Sample records, by reference
    patternsHeap,   \* array objects holding Pattern objects, by reference
    samples,        \* this.samples: a reference into samplesHeap
    patterns,       \* this.patterns: a reference into patternsHeap
    currentPattern, \* this.currentPattern
    isPlaying,      \* this.isPlaying
    isRecording,    \* this.isRecording
    currentStep,    \* this.currentStep
    bpm,            \* this.bpm
    players,        \* this.players: per pad, the Tone.Player node
    panners,        \* this.panners: per pad, the Tone.Panner pan value
    sequence,       \* this.sequence: the Tone.Sequence, or none
    transport,      \* Tone.Transport: state, ticks, bpm
    context,        \* Tone.getContext().state
    loads,          \* per pad, its loadSample calls in the order they were made
    timers,         \* setTimeout(testPadAudio) callbacks not yet run, a bag of pads
    retries,        \* Tone.start().then(retry) continuations not yet run, a bag
                    \* of <<pad, velocity>>, or <<pad, velocity, "timed">> for
                    \* the calls of the sequence callback
    nextBuffer,     \* number of ToneAudioBuffer objects created so far
    exported,       \* Project values returned by exportProject so far
    tickLog,        \* what each tick of the live sequence triggered, oldest first
    now,            \* Date.now()
    last,           \* the operation that produced this state, with its arguments
    destination,    \* Tone.getDestination().volume, as a gain in thousandths
    transportView,  \* the Transport component's state: isPlaying, bpm
    mixerView,      \* the Mixer component's state: masterVolume
    padGrid,        \* the PadGrid component's state, renders and handlers
    editorView      \* the WaveformEditor component: its pad and its `sample` state

vars == <<samplesHeap, patternsHeap, samples, patterns, currentPattern,
          isPlaying, isRecording, currentStep, bpm, players, panners,
          sequence, transport, context, loads, timers, retries, nextBuffer,
          exported, tickLog, now, last, destination, transportView,
          mixerView, padGrid, editorView>>

\* the state of the React components
viewVars == <<transportView, mixerView, padGrid, editorView>>

engineVars == <<samplesHeap, patternsHeap, samples, patterns, currentPattern,
                isPlaying, isRecording, currentStep, bpm, players, panners,
                sequence, transport>>

(***************************************************************************)
(* JavaScript arrays.                                                      *)
(***************************************************************************)
Len0(a) == Cardinality(DOMAIN a)

\* an array slot that was never written reads as undefined: it is falsy in a row
\* of steps and not a number in a row of velocities
Undefined == -1

\* a[i] = v on a JavaScript array: a write past the end lengthens the array and
\* leaves the slots in between unwritten (they read as `empty`)
ArraySet(a, i, v, empty) ==
    [j \in 0..(IF i >= Len0(a) THEN i ELSE Len0(a) - 1) |->
        IF j = i THEN v ELSE IF j < Len0(a) THEN a[j] ELSE empty]

\* a[i] read from a JavaScript array: undefined (`empty`) past the end
ArrayGet(a, i, empty) == IF i \in DOMAIN a THEN a[i] ELSE empty

ArrayPush(a, v) == [j \in 0..Len0(a) |-> IF j = Len0(a) THEN v ELSE a[j]]

Filled(n, v) == [j \in 0..(n - 1) |-> v]

(***************************************************************************)
(* Data model: Sample, Pattern, Project.                                   *)
(***************************************************************************)
NoBuffer == [id |-> 0, duration |-> 0]

EmptySample(i) ==
    [name |-> "Pad " \o ToString(i + 1), buffer |-> NoBuffer, startTime |-> 0, endTime |-> 10,
     volume |-> DefaultVolume, pan |-> 0]

NewPattern(n) ==
    [id |-> n, length |-> DefaultLength,
     steps |-> Filled(NumPads, Filled(DefaultLength, FALSE)),
     velocities |-> Filled(NumPads, Filled(DefaultLength, DefaultVelocity))]

SamplesOf(ref) == samplesHeap[ref]
PatternsOf(ref) == patternsHeap[ref]

\* getCurrentPattern()
getCurrentPattern == PatternsOf(patterns)[currentPattern]

NoSequence == [live |-> FALSE, arr |-> 0, idx |-> 0, length |-> 0,
               started |-> FALSE, startTick |-> 0, next |-> 0, stale |-> 0]

\* A Tone.Player: its buffer, its volume as the linear gain (in thousandths) whose
\* decibel value player.volume.value holds, its playback state, the number of
\* voices it has started that have neither ended nor been stopped, and whether
\* its latest start stopped a previous voice first.
NewPlayer(buf) ==
    [buffer |-> buf, gain |-> 1000, state |-> "stopped", offset |-> 0, duration |-> 0,
     voices |-> 0, cut |-> FALSE, ahead |-> "none"]

NoFile == [name |-> "", readable |-> FALSE, decodable |-> FALSE, duration |-> 0]

\* a loadSample call is a record of where it stands (pc), its file, the buffer
\* it decoded and how its promise settled; a pad starts with no call
NoLoads == <<>>

Op(name, pad, step, val) == [op |-> name, pad |-> pad, step |-> step, val |-> val]

(***************************************************************************)
(* The state of the React components that drive the engine, and the master *)
(* volume they share with it.  Linear gains are in tenths, decibels in     *)
(* hundredths.                                                             *)
(***************************************************************************)
\* Tone.gainToDb for the gains 0, 0.1 .. 1: 20 * log10(gain), -Infinity for 0
Decibels == <<-99999, -2000, -1398, -1046, -796, -602, -444, -310, -194, -92, 0>>

Gains == 0..(Len(Decibels) - 1)

GainToDb(gain) == Decibels[gain + 1]

\* Tone.dbToGain, on the values gainToDb produces
DbToGain(db) == CHOOSE gain \in Gains : Decibels[gain + 1] = db

\* Tone.getDestination().volume.value = 0: full volume
MasterVolumeDb == 0

\* Transport: useState(false), useState(false), useState(120)
TransportBpm == 120

TransportView == [isPlaying |-> FALSE, isRecording |-> FALSE, bpm |-> TransportBpm]

\* Mixer: useState(0.8)
MixerMasterVolume == 8

MixerView == [masterVolume |-> MixerMasterVolume]

\* PadGrid: activePads and audioInitialized are the component's state;
\* rendered is the value of both that the registered handlers closed over at
\* the last render; pending holds the handlers (of a keydown, a pad click or
\* an upload click) that are awaiting audioEngine.init(), each with the
\* activePads it closed over; flashes holds the pads whose click set a 100 ms
\* timer that has not run; held is the set of pad keys that are down, and
\* calls counts the triggerPad calls keydown handlers made for a pad since the
\* keydown that began its hold
PadGridView ==
    [activePads |-> {}, audioInitialized |-> FALSE,
     rendered |-> [activePads |-> {}, audioInitialized |-> FALSE],
     pending |-> EmptyBag, flashes |-> EmptyBag, held |-> {},
     calls |-> [p \in Pads |-> 0]]

\* WaveformEditor: not mounted; once mounted, selectedPad is its prop and
\* sample its `sample` state, the Sample it last read from the engine
EditorView == [mounted |-> FALSE, selectedPad |-> 0, sample |-> EmptySample(0)]

Init ==
    /\ samplesHeap = <<[i \in Pads |-> EmptySample(i)]>>
    /\ patternsHeap = <<Filled(1, NewPattern(1))>>
    /\ samples = 1
    /\ patterns = 1
    /\ currentPattern = 0
    /\ isPlaying = FALSE
    /\ isRecording = FALSE
    /\ currentStep = 0
    /\ bpm = DefaultBpm
    /\ players = [i \in Pads |-> NewPlayer(NoBuffer)]
    /\ panners = [i \in Pads |-> 0]
    /\ sequence = NoSequence
    /\ transport = [state |-> "stopped", ticks |-> 0, bpm |-> DefaultBpm]
    /\ context = "suspended"
    /\ loads = [p \in Pads |-> NoLoads]
    /\ timers = EmptyBag
    /\ retries = EmptyBag
    /\ nextBuffer = 0
    /\ exported = <<>>
    /\ tickLog = <<>>
    /\ now = 0
    /\ last = Op("constructor", -1, -1, -1)
    /\ destination = MasterVolumeDb
    /\ transportView = TransportView
    /\ mixerView = MixerView
    /\ padGrid = PadGridView
    /\ editorView = EditorView

Max(a, b) == IF a >= b THEN a ELSE b
Min(a, b) == IF a <= b THEN a ELSE b

(***************************************************************************)
(* Tone.Transport and Tone.Sequence.                                       *)
(***************************************************************************)
\* ticks in one '16n' step: the sequence's subdivision (this.quantization)
StepTicks == PPQ \div 4

TransportStart(t) == [t EXCEPT !.state = "started"]
TransportStop(t) == [t EXCEPT !.state = "stopped", !.ticks = 0]
\* a pause that leaves the transport running
TransportPauseIgnored(t) == t

TransportPause(t) ==
    [t EXCEPT !.state = IF t.state = "started" THEN "paused" ELSE t.state]

\* an updateSequence that replaces this.sequence without disposing it: a
\* started sequence stays on the transport with its callback
SequenceDropped(q) == IF q.live /\ q.started THEN q.stale + 1 ELSE q.stale

\* `if (this.sequence) this.sequence.dispose()`: the number of earlier
\* sequences whose events are still on the transport afterwards; dispose()
\* takes this.sequence off the transport and touches no other sequence
SequenceDisposed(q) == q.stale

\* updateSequence(): the previous sequence is disposed and a new one is built
\* over the pattern that is current now; it is started, at the transport's
\* position, when the engine is playing.
updateSequence(heap, ref, cur, playing) ==
    [live |-> TRUE, arr |-> ref, idx |-> cur, length |-> heap[ref][cur].length,
     started |-> playing,
     startTick |-> IF playing THEN transport.ticks ELSE 0,
     next |-> IF playing THEN transport.ticks ELSE 0,
     stale |-> SequenceDisposed(sequence)]

\* the step the live sequence plays at its next event
SequenceStep(q) == ((q.next - q.startTick) \div StepTicks) % q.length

SequenceDue ==
    /\ transport.state = "started"
    /\ context = "running"
    /\ sequence.live
    /\ sequence.started
    /\ sequence.next <= transport.ticks

(***************************************************************************)
(* triggerPad.                                                             *)
(***************************************************************************)
\* playback offset and length, in hundredths of a second
TriggerStart(s) == Max(0, s.startTime * s.buffer.duration)
TriggerEnd(s) == Min(s.buffer.duration * 10, s.endTime * s.buffer.duration)
\* a length computed as the end offset, not as end minus start
TriggerDurationFromEnd(s) == TriggerEnd(s)

TriggerDuration(s) == TriggerEnd(s) - TriggerStart(s)

\* a triggerPad without its `if (!sample.buffer) return`
TriggerOutcomeUnchecked(pad, ctx) ==
    LET s == SamplesOf(samples)[pad] IN
    IF ctx # "running" THEN "retry"
    ELSE IF s.buffer.duration <= 0 THEN "badDuration"
    ELSE IF TriggerDuration(s) <= 0 THEN "badTiming"
    ELSE "played"

\* a triggerPad without its checks of the buffer duration and of the computed
\* duration
TriggerOutcomeUnvalidated(pad, ctx) ==
    LET s == SamplesOf(samples)[pad] IN
    IF s.buffer = NoBuffer THEN "noSample"
    ELSE IF ctx # "running" THEN "retry"
    ELSE "played"

\* which way one triggerPad call goes through its early returns
TriggerOutcome(pad, ctx) ==
    LET s == SamplesOf(samples)[pad] IN
    IF s.buffer = NoBuffer THEN "noSample"
    ELSE IF ctx # "running" THEN "retry"
    ELSE IF s.buffer.duration <= 0 THEN "badDuration"
    ELSE IF TriggerDuration(s) <= 0 THEN "badTiming"
    ELSE "played"

\* Math.max(-60, Tone.gainToDb(velocity * sample.volume)), as a gain in thousandths
FinalGain(velocity, volume) == Max(1, velocity * volume * 10)

\* a triggerPad that starts the new voice without stopping the one sounding
PlayerTriggeredOver(pad, velocity) ==
    LET s == SamplesOf(samples)[pad] IN
    [players[pad] EXCEPT !.gain = FinalGain(velocity, s.volume),
                         !.state = "started",
                         !.offset = TriggerStart(s),
                         !.duration = TriggerDuration(s),
                         !.voices = @ + 1,
                         !.cut = FALSE]

\* the pad's player once triggerPad has started a voice on it: a player that
\* is started is stopped first (player.stop()), then player.start() adds the
\* new voice
PlayerTriggered(pad, velocity) ==
    LET s == SamplesOf(samples)[pad] IN
    [players[pad] EXCEPT !.gain = FinalGain(velocity, s.volume),
                         !.state = "started",
                         !.offset = TriggerStart(s),
                         !.duration = TriggerDuration(s),
                         !.voices = (IF players[pad].state = "started" THEN 0 ELSE @) + 1,
                         !.cut = (players[pad].state = "started")]

\* the pad's player when player.start has thrown: the volume is set and a
\* sounding voice is stopped by then
PlayerThrew(pad, velocity) ==
    [players[pad] EXCEPT !.gain = FinalGain(velocity, SamplesOf(samples)[pad].volume),
                         !.state = "stopped",
                         !.voices = 0,
                         !.ahead = "none"]

\* player.start(time, offset, duration): the voice is handed to the audio
\* graph for a time that lies ahead, `time` for the sequence callback (which
\* runs a look-ahead before its step sounds) and "+0" otherwise; origin tells
\* which, until the voice begins to sound
StartedAhead(player, origin) == [player EXCEPT !.ahead = origin]

\* getQuantizedStep()
getQuantizedStep == ((transport.ticks * 4) \div PPQ) % QuantizeModulus

\* recordStep(padIndex, velocity) applied to a pattern
recordStep(pat, pad, velocity) ==
    [pat EXCEPT
        !.steps[pad] = ArraySet(@, getQuantizedStep, TRUE, FALSE),
        !.velocities[pad] = ArraySet(@, getQuantizedStep, velocity, Undefined)]

\* a record branch that does not look at `time`
RecordBranchUntimed(timed) == isRecording

\* `if (this.isRecording && time === undefined)`: timed tells whether the call
\* was given a time, as the calls of the sequence callback are
RecordBranch(timed) == isRecording /\ ~timed

\* the tail of triggerPad, which the early returns above it skip; it comes
\* after the try/catch, and so it runs as well when player.start has thrown
RecordsStep(pad, ctx) == RecordBranch(FALSE) /\ TriggerOutcome(pad, ctx) = "played"

\* triggerPad(padIndex, velocity) with no scheduled time, the audio context
\* being in state ctx; pendingRetries and pendingTimers are the continuations
\* still waiting once this call has begun; threw tells whether player.start
\* throws, which the catch of triggerPad logs
ManualTrigger(pad, velocity, name, ctx, pendingRetries, pendingTimers, threw) ==
    /\ TriggerOutcome(pad, ctx) = "retry" => BagCardinality(pendingRetries) < MaxRetries
    /\ threw => TriggerOutcome(pad, ctx) = "played"
    /\ context' = ctx
    /\ players' = IF TriggerOutcome(pad, ctx) = "played"
                  THEN [players EXCEPT ![pad] =
                           IF threw
                           THEN PlayerThrew(pad, velocity)
                           ELSE StartedAhead(PlayerTriggered(pad, velocity), "manual")]
                  ELSE players
    /\ retries' = IF TriggerOutcome(pad, ctx) = "retry"
                  THEN pendingRetries (+) SetToBag({<<pad, velocity>>})
                  ELSE pendingRetries
    /\ timers' = pendingTimers
    /\ IF RecordsStep(pad, ctx)
       THEN /\ patternsHeap' = [patternsHeap EXCEPT ![patterns][currentPattern] =
                                   recordStep(@, pad, velocity)]
            /\ sequence' = updateSequence(patternsHeap', patterns, currentPattern, isPlaying)
            /\ tickLog' = <<>>
       ELSE UNCHANGED <<patternsHeap, sequence, tickLog>>
    /\ last' = Op(name, pad, IF RecordsStep(pad, ctx) THEN getQuantizedStep ELSE -1,
                  velocity)
    /\ UNCHANGED <<samplesHeap, samples, patterns, currentPattern, isPlaying,
                   isRecording, currentStep, bpm, panners, transport,
                   loads, nextBuffer, exported, now>>

TriggerPad(pad, velocity, threw) ==
    /\ ManualTrigger(pad, velocity, "triggerPad", context, retries, timers, threw)
    /\ UNCHANGED <<destination, viewVars>>

\* Tone.start().then(() => this.triggerPad(padIndex, velocity, time)): the
\* promise has resolved and the continuation makes the trigger again; resumed
\* tells whether the resolution brought the context to 'running' (it does not
\* when the context cannot be resumed)
RetryTrigger(pad, velocity, resumed, threw) ==
    /\ BagIn(<<pad, velocity>>, retries)
    /\ ManualTrigger(pad, velocity, "retry",
                     IF resumed THEN "running" ELSE context,
                     retries (-) SetToBag({<<pad, velocity>>}), timers, threw)
    /\ UNCHANGED <<destination, viewVars>>

\* the callback of one of testPadAudio's timers runs:
\* setTimeout(() => this.triggerPad(padIndex, 0.8), 100)
TestPadAudio(pad, threw) ==
    /\ BagIn(pad, timers)
    /\ ManualTrigger(pad, TestVelocity, "testPadAudio", context, retries,
                     timers (-) SetToBag({pad}), threw)
    /\ UNCHANGED <<destination, viewVars>>

\* the audio clock reaches the time a voice was started for: it sounds
VoiceBegin(pad) ==
    /\ players[pad].ahead # "none"
    /\ players' = [players EXCEPT ![pad].ahead = "none"]
    /\ UNCHANGED <<destination, viewVars>>
    /\ UNCHANGED <<samplesHeap, patternsHeap, samples, patterns, currentPattern,
                   isPlaying, isRecording, currentStep, bpm, panners, sequence,
                   transport, context, loads, timers, retries, nextBuffer,
                   exported, tickLog, now, last>>

\* a voice that has played its duration: the player is stopped again
VoiceEnd(pad) ==
    /\ players[pad].state = "started"
    /\ players' = [players EXCEPT ![pad].state = "stopped", ![pad].voices = 0,
                                  ![pad].ahead = "none"]
    /\ UNCHANGED <<destination, viewVars>>
    /\ UNCHANGED <<samplesHeap, patternsHeap, samples, patterns, currentPattern,
                   isPlaying, isRecording, currentStep, bpm, panners, sequence,
                   transport, context, loads, timers, retries, nextBuffer,
                   exported, tickLog, now, last>>

(***************************************************************************)
(* Pattern management.                                                     *)
(***************************************************************************)
NumPatterns == Len0(PatternsOf(patterns))

\* a setCurrentPattern that does not rebuild the schedule
SetCurrentPatternNoRebuild(index) ==
    /\ IF index >= 0 /\ index < NumPatterns
       THEN currentPattern' = index
       ELSE UNCHANGED currentPattern
    /\ last' = Op("setCurrentPattern", -1, -1, index)
    /\ UNCHANGED <<destination, viewVars>>
    /\ UNCHANGED <<samplesHeap, patternsHeap, samples, patterns, isPlaying,
                   isRecording, currentStep, bpm, players, panners, transport,
                   context, loads, timers, retries, nextBuffer, exported, now,
                   sequence, tickLog>>

\* a setCurrentPattern without the range check
SetCurrentPatternUnchecked(index) ==
    /\ currentPattern' = index
    /\ IF index >= 0 /\ index < NumPatterns
       THEN /\ sequence' = updateSequence(patternsHeap, patterns, index, isPlaying)
            /\ tickLog' = <<>>
       ELSE UNCHANGED <<sequence, tickLog>>
    /\ last' = Op("setCurrentPattern", -1, -1, index)
    /\ UNCHANGED <<destination, viewVars>>
    /\ UNCHANGED <<samplesHeap, patternsHeap, samples, patterns, isPlaying,
                   isRecording, currentStep, bpm, players, panners, transport,
                   context, loads, timers, retries, nextBuffer, exported, now>>

\* setCurrentPattern(index)
SetCurrentPattern(index) ==
    /\ IF index >= 0 /\ index < NumPatterns
       THEN /\ currentPattern' = index
            /\ sequence' = updateSequence(patternsHeap, patterns, index, isPlaying)
            /\ tickLog' = <<>>
       ELSE UNCHANGED <<currentPattern, sequence, tickLog>>
    /\ last' = Op("setCurrentPattern", -1, -1, index)
    /\ UNCHANGED <<destination, viewVars>>
    /\ UNCHANGED <<samplesHeap, patternsHeap, samples, patterns, isPlaying,
                   isRecording, currentStep, bpm, players, panners, transport,
                   context, loads, timers, retries, nextBuffer, exported, now>>

\* an addPattern that also makes the new pattern the active one
AddPatternActivate ==
    /\ NumPatterns < MaxPatterns
    /\ patternsHeap' = [patternsHeap EXCEPT ![patterns] =
                           ArrayPush(@, NewPattern(NumPatterns + 1))]
    /\ currentPattern' = NumPatterns
    /\ last' = Op("addPattern", -1, -1, NumPatterns)
    /\ UNCHANGED <<destination, viewVars>>
    /\ UNCHANGED <<samplesHeap, samples, patterns, isPlaying,
                   isRecording, currentStep, bpm, players, panners, sequence,
                   transport, context, loads, timers, retries, nextBuffer,
                   exported, tickLog, now>>

\* addPattern()
AddPattern ==
    /\ NumPatterns < MaxPatterns
    /\ patternsHeap' = [patternsHeap EXCEPT ![patterns] =
                           ArrayPush(@, NewPattern(NumPatterns + 1))]
    /\ last' = Op("addPattern", -1, -1, NumPatterns)
    /\ UNCHANGED <<destination, viewVars>>
    /\ UNCHANGED <<samplesHeap, samples, patterns, currentPattern, isPlaying,
                   isRecording, currentStep, bpm, players, panners, sequence,
                   transport, context, loads, timers, retries, nextBuffer,
                   exported, tickLog, now>>

\* a toggleStep that switches the cell on whatever it held
toggleStepOn(pat, pad, step) ==
    [pat EXCEPT !.steps[pad] = ArraySet(@, step, TRUE, FALSE)]

\* pattern.steps[padIndex][stepIndex] = !pattern.steps[padIndex][stepIndex]
toggleStep(pat, pad, step) ==
    [pat EXCEPT !.steps[pad] = ArraySet(@, step, ~ArrayGet(@, step, FALSE), FALSE)]

ToggleStep(pad, step) ==
    /\ patternsHeap' = [patternsHeap EXCEPT ![patterns][currentPattern] =
                           toggleStep(@, pad, step)]
    /\ sequence' = updateSequence(patternsHeap', patterns, currentPattern, isPlaying)
    /\ tickLog' = <<>>
    /\ last' = Op("toggleStep", pad, step, -1)
    /\ UNCHANGED <<destination, viewVars>>
    /\ UNCHANGED <<samplesHeap, samples, patterns, currentPattern, isPlaying,
                   isRecording, currentStep, bpm, players, panners, transport,
                   context, loads, timers, retries, nextBuffer, exported, now>>

\* pattern.velocities[padIndex][stepIndex] = velocity
setStepVelocity(pat, pad, step, velocity) ==
    [pat EXCEPT !.velocities[pad] = ArraySet(@, step, velocity, Undefined)]

SetStepVelocity(pad, step, velocity) ==
    /\ patternsHeap' = [patternsHeap EXCEPT ![patterns][currentPattern] =
                           setStepVelocity(@, pad, step, velocity)]
    /\ last' = Op("setStepVelocity", pad, step, velocity)
    /\ UNCHANGED <<destination, viewVars>>
    /\ UNCHANGED <<samplesHeap, samples, patterns, currentPattern, isPlaying,
                   isRecording, currentStep, bpm, players, panners, sequence,
                   transport, context, loads, timers, retries, nextBuffer,
                   exported, tickLog, now>>

(***************************************************************************)
(* Transport controls and recording.                                       *)
(***************************************************************************)
\* the body of play(), also run by startRecording()
PlayBody ==
    IF ~isPlaying
    THEN /\ isPlaying' = TRUE
         /\ sequence' = updateSequence(patternsHeap, patterns, currentPattern, TRUE)
         /\ tickLog' = <<>>
         /\ transport' = TransportStart(transport)
    ELSE UNCHANGED <<isPlaying, sequence, tickLog, transport>>

\* a play() without its `if (!this.isPlaying)` guard
PlayRestart ==
    /\ isPlaying' = TRUE
    /\ sequence' = updateSequence(patternsHeap, patterns, currentPattern, TRUE)
    /\ tickLog' = <<>>
    /\ transport' = TransportStart(transport)
    /\ last' = Op("play", -1, -1, -1)
    /\ UNCHANGED <<destination, viewVars>>
    /\ UNCHANGED <<samplesHeap, patternsHeap, samples, patterns, currentPattern,
                   isRecording, currentStep, bpm, players, panners, context,
                   loads, timers, retries, nextBuffer, exported, now>>

Play ==
    /\ PlayBody
    /\ last' = Op("play", -1, -1, -1)
    /\ UNCHANGED <<destination, viewVars>>
    /\ UNCHANGED <<samplesHeap, patternsHeap, samples, patterns, currentPattern,
                   isRecording, currentStep, bpm, players, panners, context,
                   loads, timers, retries, nextBuffer, exported, now>>

\* a stop() that forgets to reset currentStep
StopKeepStep ==
    /\ isPlaying' = FALSE
    /\ transport' = TransportStop(transport)
    /\ last' = Op("stop", -1, -1, -1)
    /\ UNCHANGED <<destination, viewVars>>
    /\ UNCHANGED <<samplesHeap, patternsHeap, samples, patterns, currentPattern,
                   isRecording, currentStep, bpm, players, panners, sequence,
                   context, loads, timers, retries, nextBuffer, exported,
                   tickLog, now>>

Stop ==
    /\ isPlaying' = FALSE
    /\ currentStep' = 0
    /\ transport' = TransportStop(transport)
    /\ last' = Op("stop", -1, -1, -1)
    /\ UNCHANGED <<destination, viewVars>>
    /\ UNCHANGED <<samplesHeap, patternsHeap, samples, patterns, currentPattern,
                   isRecording, bpm, players, panners, sequence, context, loads,
                   timers, retries, nextBuffer, exported, tickLog, now>>

Pause ==
    /\ isPlaying' = FALSE
    /\ transport' = TransportPause(transport)
    /\ last' = Op("pause", -1, -1, -1)
    /\ UNCHANGED <<destination, viewVars>>
    /\ UNCHANGED <<samplesHeap, patternsHeap, samples, patterns, currentPattern,
                   isRecording, currentStep, bpm, players, panners, sequence,
                   context, loads, timers, retries, nextBuffer, exported,
                   tickLog, now>>

\* a startRecording that runs the body of play() whether or not it is playing
StartRecordingRestart ==
    /\ isRecording' = TRUE
    /\ isPlaying' = TRUE
    /\ sequence' = updateSequence(patternsHeap, patterns, currentPattern, TRUE)
    /\ tickLog' = <<>>
    /\ transport' = TransportStart(transport)
    /\ last' = Op("startRecording", -1, -1, -1)
    /\ UNCHANGED <<destination, viewVars>>
    /\ UNCHANGED <<samplesHeap, patternsHeap, samples, patterns, currentPattern,
                   currentStep, bpm, players, panners, context, loads, timers,
                   retries, nextBuffer, exported, now>>

StartRecording ==
    /\ isRecording' = TRUE
    /\ PlayBody
    /\ last' = Op("startRecording", -1, -1, -1)
    /\ UNCHANGED <<destination, viewVars>>
    /\ UNCHANGED <<samplesHeap, patternsHeap, samples, patterns, currentPattern,
                   currentStep, bpm, players, panners, context, loads, timers,
                   retries, nextBuffer, exported, now>>

StopRecording ==
    /\ isRecording' = FALSE
    /\ last' = Op("stopRecording", -1, -1, -1)
    /\ UNCHANGED <<destination, viewVars>>
    /\ UNCHANGED <<samplesHeap, patternsHeap, samples, patterns, currentPattern,
                   isPlaying, currentStep, bpm, players, panners, sequence,
                   transport, context, loads, timers, retries, nextBuffer,
                   exported, tickLog, now>>

\* a setBPM that restarts the clock at the new tempo
SetBPMRewind(value) ==
    /\ bpm' = value
    /\ transport' = [transport EXCEPT !.bpm = value, !.ticks = 0]
    /\ currentStep' = 0
    /\ last' = Op("setBPM", -1, -1, value)
    /\ UNCHANGED <<destination, viewVars>>
    /\ UNCHANGED <<samplesHeap, patternsHeap, samples, patterns, currentPattern,
                   isPlaying, isRecording, players, panners,
                   sequence, context, loads, timers, retries, nextBuffer,
                   exported, tickLog, now>>

setBPM(value) ==
    /\ bpm' = value
    /\ transport' = [transport EXCEPT !.bpm = value]
    /\ last' = Op("setBPM", -1, -1, value)
    /\ UNCHANGED <<destination, mixerView, padGrid, editorView>>
    /\ UNCHANGED <<samplesHeap, patternsHeap, samples, patterns, currentPattern,
                   isPlaying, isRecording, currentStep, players, panners,
                   sequence, context, loads, timers, retries, nextBuffer,
                   exported, tickLog, now>>

\* setBPM called by anything but the Transport component's handleBpmChange
SetBPM(value) ==
    /\ setBPM(value)
    /\ UNCHANGED transportView

(***************************************************************************)
(* The scheduler: the callback updateSequence hands to Tone.Sequence.      *)
(***************************************************************************)
\* a callback that reads the first pattern instead of the one it closed over
SequencePatternFirst == patternsHeap[sequence.arr][0]

\* the pattern object the live sequence's callback closed over
SequencePattern == patternsHeap[sequence.arr][sequence.idx]

\* the triggerPad(padIndex, velocity, time) calls one tick makes
TickCalls(pat, step) ==
    {<<p, ArrayGet(pat.velocities[p], step, Undefined)>> :
        p \in {q \in Pads : ArrayGet(pat.steps[q], step, FALSE)}}

\* whether the triggerPad call one tick makes for a pad reaches the record
\* branch and takes it
TickRecords(p) ==
    /\ ArrayGet(SequencePattern.steps[p], SequenceStep(sequence), FALSE)
    /\ TriggerOutcome(p, context) = "played"
    /\ RecordBranch(TRUE)

\* the current pattern after the triggerPad calls of one tick
TickRecorded(pat) ==
    [pat EXCEPT
        !.steps = [p \in DOMAIN pat.steps |->
            IF TickRecords(p)
            THEN recordStep(pat, p,
                     SequencePattern.velocities[p][SequenceStep(sequence)]).steps[p]
            ELSE pat.steps[p]],
        !.velocities = [p \in DOMAIN pat.velocities |->
            IF TickRecords(p)
            THEN recordStep(pat, p,
                     SequencePattern.velocities[p][SequenceStep(sequence)]).velocities[p]
            ELSE pat.velocities[p]]]

\* triggerPad without its try/catch: an error the player throws leaves the
\* call
PropagatesThrown(outcome) == outcome = "threw"

\* whether a triggerPad call that went the given way ends by throwing to its
\* caller: the early returns return, and the try/catch around the playback
\* part logs what is thrown
Propagates(outcome) == FALSE

\* which way the triggerPad call of a tick goes for a pad, thrown being the
\* pads whose player throws from player.start
TickOutcome(p, thrown) ==
    IF TriggerOutcome(p, context) = "played" /\ p \in thrown
    THEN "threw"
    ELSE TriggerOutcome(p, context)

\* the pads the callback's loop `for (padIndex = 0; padIndex < 16; padIndex++)`
\* calls triggerPad for: those active at the step, as long as no earlier call
\* threw out of the loop
TickReached(thrown) ==
    {p \in Pads :
        /\ ArrayGet(SequencePattern.steps[p], SequenceStep(sequence), FALSE)
        /\ \A q \in 0..(p - 1) :
              ArrayGet(SequencePattern.steps[q], SequenceStep(sequence), FALSE)
                 => ~Propagates(TickOutcome(q, thrown))}

\* the callback of the live sequence runs for its next event, the players of
\* the pads in thrown throwing from player.start. A call that finds the
\* context not running leaves by Tone.start().then(() => triggerPad(padIndex,
\* velocity, time)): its continuation waits in retries, marked "timed"
SequenceCallback(thrown) ==
    /\ patternsHeap' = [patternsHeap EXCEPT ![patterns][currentPattern] = TickRecorded(@)]
    /\ currentStep' = SequenceStep(sequence)
    /\ players' = [p \in Pads |->
                      IF p \in TickReached(thrown)
                      THEN CASE TickOutcome(p, thrown) = "played" ->
                                  StartedAhead(
                                      PlayerTriggered(p, SequencePattern.velocities[p][SequenceStep(sequence)]),
                                      "tick")
                             [] TickOutcome(p, thrown) = "threw" ->
                                  PlayerThrew(p, SequencePattern.velocities[p][SequenceStep(sequence)])
                             [] OTHER -> players[p]
                      ELSE players[p]]
    /\ sequence' = [sequence EXCEPT !.next = @ + StepTicks]
    /\ tickLog' = Append(tickLog,
                         [step |-> SequenceStep(sequence),
                          calls |-> {c \in TickCalls(SequencePattern, SequenceStep(sequence)) :
                                       c[1] \in TickReached(thrown)},
                          callbacks |-> 1 + sequence.stale])
    /\ retries' =
          LET retried == {p \in TickReached(thrown) : TickOutcome(p, thrown) = "retry"} IN
          IF retried = {}
          THEN retries
          ELSE retries (+) SetToBag({<<p, SequencePattern.velocities[p][SequenceStep(sequence)],
                                       "timed">> : p \in retried})
    /\ last' = Op("tick", -1, SequenceStep(sequence), -1)
    /\ UNCHANGED <<destination, viewVars>>
    /\ UNCHANGED <<samplesHeap, samples, patterns, currentPattern,
                   isPlaying, isRecording, bpm, panners, transport, context,
                   loads, timers, nextBuffer, exported, now>>

\* one tick of the live sequence while the audio clock runs
TickWith(thrown) ==
    /\ SequenceDue
    /\ SequenceCallback(thrown)

\* the callback runs for an event that is due while the context is not
\* running: the transport's clock loop is driven by a timer, not by the audio
\* clock, and runs the events that were due when the context left 'running'
\* (the audio clock stands still afterwards, see Advance)
TickSuspended ==
    /\ transport.state = "started"
    /\ context # "running"
    /\ sequence.live
    /\ sequence.started
    /\ sequence.next <= transport.ticks
    /\ BagCardinality(retries) < MaxRetries
    /\ SequenceCallback({})

\* the continuation of a call the callback made while the context was not
\* running: triggerPad(padIndex, velocity, time) again, with the time of the
\* tick, so that nothing is recorded; resumed and threw as for RetryTrigger
TimedRetry(pad, velocity, resumed, threw) ==
    LET ctx == IF resumed THEN "running" ELSE context IN
    /\ BagIn(<<pad, velocity, "timed">>, retries)
    /\ threw => TriggerOutcome(pad, ctx) = "played"
    /\ context' = ctx
    /\ players' = IF TriggerOutcome(pad, ctx) = "played"
                  THEN [players EXCEPT ![pad] =
                           IF threw
                           THEN PlayerThrew(pad, velocity)
                           ELSE StartedAhead(PlayerTriggered(pad, velocity), "tick")]
                  ELSE players
    /\ retries' = IF TriggerOutcome(pad, ctx) = "retry"
                  THEN retries
                  ELSE retries (-) SetToBag({<<pad, velocity, "timed">>})
    /\ last' = Op("retry", pad, -1, velocity)
    /\ UNCHANGED <<destination, viewVars>>
    /\ UNCHANGED <<samplesHeap, patternsHeap, samples, patterns, currentPattern,
                   isPlaying, isRecording, currentStep, bpm, panners, sequence,
                   transport, loads, timers, nextBuffer, exported, tickLog, now>>

\* a tick in which no player throws
Tick == TickWith({})

\* the audio clock moves the running transport on
Advance ==
    /\ transport.state = "started"
    /\ context = "running"
    /\ ~SequenceDue
    /\ transport.ticks + TickQuantum <= MaxTicks
    /\ transport' = [transport EXCEPT !.ticks = @ + TickQuantum]
    /\ UNCHANGED <<destination, viewVars>>
    /\ UNCHANGED <<samplesHeap, patternsHeap, samples, patterns, currentPattern,
                   isPlaying, isRecording, currentStep, bpm, players, panners,
                   sequence, context, loads, timers, retries, nextBuffer,
                   exported, tickLog, now, last>>

(***************************************************************************)
(* Audio context and wall clock.                                           *)
(***************************************************************************)
\* init(): await Tone.start() brings the audio context to 'running'
InitAudio ==
    /\ context' = "running"
    /\ last' = Op("init", -1, -1, -1)
    /\ destination' = MasterVolumeDb
    /\ UNCHANGED viewVars
    /\ UNCHANGED <<samplesHeap, patternsHeap, samples, patterns, currentPattern,
                   isPlaying, isRecording, currentStep, bpm, players, panners,
                   sequence, transport, loads, timers, retries, nextBuffer,
                   exported, tickLog, now>>

\* the browser suspends the audio context
ContextSuspend ==
    /\ context = "running"
    /\ context' = "suspended"
    /\ UNCHANGED <<destination, viewVars>>
    /\ UNCHANGED <<samplesHeap, patternsHeap, samples, patterns, currentPattern,
                   isPlaying, isRecording, currentStep, bpm, players, panners,
                   sequence, transport, loads, timers, retries, nextBuffer,
                   exported, tickLog, now, last>>

\* wall-clock time passes: Date.now() returns a later value
ClockTick ==
    /\ now < MaxNow
    /\ now' = now + 1
    /\ UNCHANGED <<destination, viewVars>>
    /\ UNCHANGED <<samplesHeap, patternsHeap, samples, patterns, currentPattern,
                   isPlaying, isRecording, currentStep, bpm, players, panners,
                   sequence, transport, context, loads, timers, retries,
                   nextBuffer, exported, tickLog, last>>

(***************************************************************************)
(* Sample management.                                                      *)
(***************************************************************************)
\* Tone.gainToDb(value) of a gain in tenths, as a gain in thousandths
GainOf(value) == value * 100

\* a setSampleProperty that clamps what it stores to [0, 1]
setSamplePropertyClamped(sample, property, value) ==
    [sample EXCEPT ![property] = Max(0, Min(10, value))]

\* this.samples[padIndex] = {...this.samples[padIndex], [property]: value}
setSampleProperty(sample, property, value) ==
    CASE property = "volume" -> [sample EXCEPT !.volume = value]
      [] property = "pan" -> [sample EXCEPT !.pan = value]
      [] property = "startTime" -> [sample EXCEPT !.startTime = value]
      [] property = "endTime" -> [sample EXCEPT !.endTime = value]

StoreSampleProperty(pad, property, value) ==
    /\ samplesHeap' = [samplesHeap EXCEPT ![samples][pad] =
                          setSampleProperty(@, property, value)]
    /\ players' = IF property = "volume"
                  THEN [players EXCEPT ![pad].gain = GainOf(value)]
                  ELSE players
    /\ panners' = IF property = "pan"
                  THEN [panners EXCEPT ![pad] = value]
                  ELSE panners
    /\ last' = Op("setSampleProperty", pad, -1, value)
    /\ UNCHANGED <<patternsHeap, samples, patterns, currentPattern, isPlaying,
                   isRecording, currentStep, bpm, sequence, transport, context,
                   loads, timers, retries, nextBuffer, exported, tickLog, now>>

\* setSampleProperty called by anything but the WaveformEditor's handlers
SetSampleProperty(pad, property, value) ==
    /\ StoreSampleProperty(pad, property, value)
    /\ UNCHANGED <<destination, viewVars>>

\* the File objects loadSample is called with
Files ==
    { [name |-> "kick.wav", readable |-> TRUE, decodable |-> TRUE, duration |-> 20],
      [name |-> "notes.txt", readable |-> TRUE, decodable |-> FALSE, duration |-> 0],
      [name |-> "gone.wav", readable |-> FALSE, decodable |-> FALSE, duration |-> 0] }

LoadPads == {3}

\* a catch block that logs the error and throws it again
LoadCaughtRethrown(load, step) ==
    [pc |-> "idle", file |-> load.file, buffer |-> NoBuffer,
     outcome |-> "rejected", error |-> step]

\* loadSample's catch block: the error is logged and the promise is fulfilled
LoadCaught(load, step) ==
    [pc |-> "idle", file |-> load.file, buffer |-> NoBuffer,
     outcome |-> "fulfilled", error |-> step]

\* the calls of loadSample on a pad that have not settled
InFlight(pad) == {k \in DOMAIN loads[pad] : loads[pad][k].pc # "idle"}

\* loadSample(padIndex, file) up to its first await
LoadSample(pad, file) ==
    /\ Cardinality(InFlight(pad)) < MaxInFlight
    /\ loads' = [loads EXCEPT ![pad] =
                    Append(SelectSeq(@, LAMBDA l : l.pc # "idle"),
                           [pc |-> "reading", file |-> file, buffer |-> NoBuffer,
                            outcome |-> "pending", error |-> "none"])]
    /\ last' = Op("loadSample", pad, -1, -1)
    /\ UNCHANGED <<destination, viewVars>>
    /\ UNCHANGED <<samplesHeap, patternsHeap, samples, patterns, currentPattern,
                   isPlaying, isRecording, currentStep, bpm, players, panners,
                   sequence, transport, context, timers, retries, nextBuffer,
                   exported, tickLog, now>>

\* loadSample(padIndex, file) called while no earlier call on the pad is in flight
LoadSampleAlone(pad, file) ==
    /\ InFlight(pad) = {}
    /\ LoadSample(pad, file)

\* await file.arrayBuffer() settles
LoadRead(pad, k) ==
    /\ k \in DOMAIN loads[pad]
    /\ loads[pad][k].pc = "reading"
    /\ loads' = [loads EXCEPT ![pad][k] =
                    IF ~loads[pad][k].file.readable THEN LoadCaught(@, "read")
                    ELSE [@ EXCEPT !.pc = IF context # "running"
                                          THEN "resuming" ELSE "decoding"]]
    /\ last' = Op("loadRead", pad, -1, -1)
    /\ UNCHANGED <<destination, viewVars>>
    /\ UNCHANGED <<samplesHeap, patternsHeap, samples, patterns, currentPattern,
                   isPlaying, isRecording, currentStep, bpm, players, panners,
                   sequence, transport, context, timers, retries, nextBuffer,
                   exported, tickLog, now>>

\* await Tone.start() settles
LoadResume(pad, k, resumed) ==
    /\ k \in DOMAIN loads[pad]
    /\ loads[pad][k].pc = "resuming"
    /\ loads' = [loads EXCEPT ![pad][k] =
                    IF resumed THEN [@ EXCEPT !.pc = "decoding"]
                    ELSE LoadCaught(@, "resume")]
    /\ context' = IF resumed THEN "running" ELSE context
    /\ last' = Op("loadResume", pad, -1, -1)
    /\ UNCHANGED <<destination, viewVars>>
    /\ UNCHANGED <<samplesHeap, patternsHeap, samples, patterns, currentPattern,
                   isPlaying, isRecording, currentStep, bpm, players, panners,
                   sequence, transport, timers, retries, nextBuffer, exported,
                   tickLog, now>>

\* await audioContext.decodeAudioData(arrayBuffer) settles
LoadDecode(pad, k) ==
    /\ k \in DOMAIN loads[pad]
    /\ loads[pad][k].pc = "decoding"
    /\ loads[pad][k].file.decodable => nextBuffer < MaxBuffers
    /\ loads' = [loads EXCEPT ![pad][k] =
                    IF ~loads[pad][k].file.decodable THEN LoadCaught(@, "decode")
                    ELSE [@ EXCEPT !.pc = "buffering",
                                   !.buffer = [id |-> nextBuffer + 1,
                                               duration |-> loads[pad][k].file.duration]]]
    /\ nextBuffer' = IF loads[pad][k].file.decodable THEN nextBuffer + 1 ELSE nextBuffer
    /\ last' = Op("loadDecode", pad, -1, -1)
    /\ UNCHANGED <<destination, viewVars>>
    /\ UNCHANGED <<samplesHeap, patternsHeap, samples, patterns, currentPattern,
                   isPlaying, isRecording, currentStep, bpm, players, panners,
                   sequence, transport, context, timers, retries, exported,
                   tickLog, now>>

\* this.samples[padIndex] = {...this.samples[padIndex], name, buffer, endTime: 1.0}
loadedSample(sample, name, buffer) ==
    [sample EXCEPT !.name = name, !.buffer = buffer, !.endTime = 10]

\* the new Tone.Player(buffer), its volume set from the sample
loadedPlayer(sample, buffer) == [NewPlayer(buffer) EXCEPT !.gain = GainOf(sample.volume)]

\* the buffer is ready: the rest of loadSample runs without a further await
LoadCommit(pad, k) ==
    /\ k \in DOMAIN loads[pad]
    /\ loads[pad][k].pc = "buffering"
    /\ samplesHeap' = [samplesHeap EXCEPT ![samples][pad] =
                          loadedSample(@, loads[pad][k].file.name, loads[pad][k].buffer)]
    /\ players' = [players EXCEPT ![pad] =
                      loadedPlayer(samplesHeap'[samples][pad], loads[pad][k].buffer)]
    /\ timers' = timers (+) SetToBag({pad})
    /\ loads' = [loads EXCEPT ![pad][k] =
                    [@ EXCEPT !.pc = "idle", !.outcome = "fulfilled"]]
    /\ last' = Op("loadCommit", pad, -1, -1)
    /\ UNCHANGED <<destination, viewVars>>
    /\ UNCHANGED <<patternsHeap, samples, patterns, currentPattern, isPlaying,
                   isRecording, currentStep, bpm, panners, sequence, transport,
                   context, retries, nextBuffer, exported, tickLog, now>>

(***************************************************************************)
(* Project management.                                                     *)
(***************************************************************************)
\* exportProject(): the Project value it returns
exportProject ==
    [id |-> now, name |-> "Untitled Project", samples |-> samples,
     patterns |-> patterns, currentPattern |-> currentPattern, bpm |-> bpm]

\* Array objects no Project value and no engine field refers to any more cannot
\* be observed again: their slot is cleared and may be taken by a later object.
Freed == [j \in 0..(-1) |-> 0]

LiveRefs(engineRef, projects) ==
    {engineRef} \cup {projects[k].samples : k \in 1..Len(projects)}

Collect(heap, live) ==
    [r \in 1..Len(heap) |-> IF r \in live THEN heap[r] ELSE Freed]

\* the slot the arrays of a parsed project take: loadProject drops the engine's
\* own arrays as it installs the new ones, so their slot is free unless a
\* Project value still refers to it
HeldRefs == {exported[k].samples : k \in 1..Len(exported)}

NewRef ==
    IF samples \notin HeldRefs THEN samples
    ELSE IF \E r \in 1..Len(samplesHeap) : r \notin HeldRefs
    THEN CHOOSE r \in 1..Len(samplesHeap) :
            /\ r \notin HeldRefs
            /\ \A q \in 1..(r - 1) : q \in HeldRefs
    ELSE Len(samplesHeap) + 1

Store(heap, ref, value) ==
    IF ref <= Len(heap) THEN [heap EXCEPT ![ref] = value] ELSE Append(heap, value)

\* the Project values callers still hold: the two most recently returned
Held(projects, project) ==
    IF Len(projects) < 2 THEN Append(projects, project)
    ELSE <<projects[2], project>>

ExportProject ==
    /\ exported' = Held(exported, exportProject)
    /\ samplesHeap' = Collect(samplesHeap, LiveRefs(samples, exported'))
    /\ patternsHeap' = Collect(patternsHeap, LiveRefs(samples, exported'))
    /\ last' = Op("exportProject", -1, -1, Len(exported'))
    /\ UNCHANGED <<destination, viewVars>>
    /\ UNCHANGED <<samples, patterns, currentPattern,
                   isPlaying, isRecording, currentStep, bpm, players, panners,
                   sequence, transport, context, loads, timers, retries,
                   nextBuffer, tickLog, now>>

\* this.players[index].buffer = sample.buffer, for the samples that have one
rewiredPlayers(sampleArray) ==
    [i \in Pads |->
        IF sampleArray[i].buffer # NoBuffer
        THEN [players[i] EXCEPT !.buffer = sampleArray[i].buffer]
        ELSE players[i]]

\* a loadProject that falls back to the first pattern
loadedCurrentPatternFirst(project) == 0

loadedCurrentPattern(project) == project.currentPattern

loadedBpm(project) == project.bpm

\* loadProject(project); sh and ph are the heaps holding the project's arrays
loadProject(project, sh, ph) ==
    /\ samplesHeap' = Collect(sh, LiveRefs(project.samples, exported))
    /\ patternsHeap' = Collect(ph, LiveRefs(project.samples, exported))
    /\ samples' = project.samples
    /\ patterns' = project.patterns
    /\ currentPattern' = loadedCurrentPattern(project)
    /\ bpm' = loadedBpm(project)
    /\ transport' = [transport EXCEPT !.bpm = loadedBpm(project)]
    /\ players' = rewiredPlayers(sh[project.samples])
    /\ sequence' = updateSequence(ph, patterns', currentPattern', isPlaying)
    /\ tickLog' = <<>>
    /\ UNCHANGED <<destination, viewVars>>
    /\ UNCHANGED <<isPlaying, isRecording, currentStep, panners, context, loads,
                   timers, retries, nextBuffer, exported, now>>

\* loadProject of a Project value an earlier exportProject() returned; fresh
\* tells whether that was the engine's previous operation
LoadProject(k) ==
    /\ k \in 1..Len(exported)
    /\ loadProject(exported[k], samplesHeap, patternsHeap)
    /\ last' = Op("loadProject", -1,
                  IF last.op = "exportProject" /\ k = Len(exported) THEN 1 ELSE 0, k)

\* a project file as FileManager.importProject parses it: well-shaped, one
\* pattern of ImportLength steps, no audio
ImportedSamples == [i \in Pads |-> [EmptySample(i) EXCEPT !.pan = IF i = 3 THEN 5 ELSE 0]]

ImportedPattern ==
    [id |-> 1, length |-> ImportLength,
     steps |-> [p \in Pads |-> [j \in 0..(ImportLength - 1) |-> p = 5 /\ j = 0]],
     velocities |-> Filled(NumPads, Filled(ImportLength, DefaultVelocity))]

\* FileManager.importProject: loadProject(JSON.parse(text)), on fresh objects
ImportProject ==
    /\ loadProject([id |-> 0, name |-> "Imported", samples |-> NewRef,
                    patterns |-> NewRef, currentPattern |-> 0,
                    bpm |-> 100],
                   Store(samplesHeap, NewRef, ImportedSamples),
                   Store(patternsHeap, NewRef, Filled(1, ImportedPattern)))
    /\ last' = Op("importProject", -1, -1, -1)

(***************************************************************************)
(* The components: Transport, Mixer, WaveformEditor and PadGrid.  A        *)
(* handler runs with the component state of the render that registered it. *)
(***************************************************************************)
\* everything but the record of the last operation and the components
audioVars == <<samplesHeap, patternsHeap, samples, patterns, currentPattern,
               isPlaying, isRecording, currentStep, bpm, players, panners,
               sequence, transport, context, loads, timers, retries,
               nextBuffer, exported, tickLog, now>>

\* Transport: the 50 ms interval copies the engine's flags into the component
TransportPoll ==
    /\ transportView' = [transportView EXCEPT !.isPlaying = isPlaying,
                                              !.isRecording = isRecording]
    /\ transportView' # transportView
    /\ UNCHANGED <<audioVars, last, destination, mixerView, padGrid, editorView>>

HandlePlay == IF transportView.isPlaying THEN Pause ELSE Play

HandleStop == Stop

HandleRecord == IF transportView.isRecording THEN StopRecording ELSE StartRecording

HandleBpmChange(newBpm) ==
    /\ transportView' = [transportView EXCEPT !.bpm = newBpm]
    /\ setBPM(newBpm)

\* the BPM field: onChange={(e) => handleBpmChange(parseInt(e.target.value))}
HandleBpmInput(typed) == HandleBpmChange(typed)

\* the - button
HandleBpmMinus == HandleBpmChange(Max(60, transportView.bpm - 1))

\* the + button
HandleBpmPlus == HandleBpmChange(Min(200, transportView.bpm + 1))

\* Mixer
getMasterVolume == DbToGain(destination)

SetMasterVolume(volume) ==
    /\ destination' = GainToDb(volume)
    /\ last' = Op("setMasterVolume", -1, -1, volume)
    /\ UNCHANGED <<audioVars, viewVars>>

\* the master slider: onChange={(e) => setMasterVolume(parseFloat(...))},
\* where setMasterVolume is the setter of the component's own state
HandleMasterVolumeChange(value) ==
    /\ mixerView' = [mixerView EXCEPT !.masterVolume = value]
    /\ UNCHANGED <<audioVars, last, destination, transportView, padGrid, editorView>>

HandleVolumeChange(pad, volume) == SetSampleProperty(pad, "volume", volume)

HandlePanChange(pad, pan) == SetSampleProperty(pad, "pan", pan)

\* WaveformEditor is mounted on a pad, or its selectedPad prop changes:
\* useState / the effect read audioEngine.getSample(selectedPad)
EditorSelect(pad) ==
    /\ editorView' = [mounted |-> TRUE, selectedPad |-> pad,
                      sample |-> SamplesOf(samples)[pad]]
    /\ editorView' # editorView
    /\ UNCHANGED <<audioVars, last, destination, transportView, mixerView, padGrid>>

\* the sliders are rendered when the component's own `sample` has a buffer
SlidersRendered(pad) ==
    /\ editorView.mounted
    /\ editorView.selectedPad = pad
    /\ editorView.sample.buffer # NoBuffer

\* a handler of the editor: setSampleProperty, then
\* setSample(audioEngine.getSample(selectedPad))
EditorChange(pad, property, value) ==
    /\ SlidersRendered(pad)
    /\ StoreSampleProperty(pad, property, value)
    /\ editorView' = [editorView EXCEPT !.sample = samplesHeap'[samples'][pad]]
    /\ UNCHANGED <<destination, transportView, mixerView, padGrid>>

HandleStartTimeChange(pad, startTime) == EditorChange(pad, "startTime", startTime)

HandleEndTimeChange(pad, endTime) == EditorChange(pad, "endTime", endTime)

\* PadGrid: the component renders again and registers handlers that close
\* over its current state
PadGridRender ==
    /\ padGrid.rendered # [activePads |-> padGrid.activePads,
                           audioInitialized |-> padGrid.audioInitialized]
    /\ padGrid' = [padGrid EXCEPT !.rendered =
                      [activePads |-> padGrid.activePads,
                       audioInitialized |-> padGrid.audioInitialized]]
    /\ UNCHANGED <<audioVars, last, destination, transportView, mixerView, editorView>>

\* the keys of a hold: the keydown that begins it, and its repeats
KeyHold(grid, pad) ==
    IF pad \in grid.held
    THEN grid
    ELSE [grid EXCEPT !.held = @ \cup {pad}, !.calls[pad] = 0]

\* handleKeyDown after `await ensureAudioActive()`, with the activePads it
\* closed over
KeyDownBody(grid, pad, closedOver, ctx, threw) ==
    IF pad \notin closedOver
    THEN /\ padGrid' = [grid EXCEPT !.activePads = @ \cup {pad},
                                    !.calls[pad] = @ + 1]
         /\ ManualTrigger(pad, TestVelocity, "triggerPad", ctx, retries, timers,
                          threw)
    ELSE /\ ~threw
         /\ padGrid' = grid
         /\ context' = ctx
         /\ UNCHANGED <<samplesHeap, patternsHeap, samples, patterns,
                        currentPattern, isPlaying, isRecording, currentStep,
                        bpm, players, panners, sequence, transport, loads,
                        timers, retries, nextBuffer, exported, tickLog, now,
                        last>>

\* handlePadClick after `await ensureAudioActive()`: the pad is triggered
\* whatever activePads holds, lit, and a 100 ms timer is set to unlight it
\* (onPadSelect is the parent's callback)
PadClickBody(grid, pad, ctx, threw) ==
    /\ padGrid' = [grid EXCEPT !.activePads = @ \cup {pad},
                               !.flashes = @ (+) SetToBag({pad})]
    /\ ManualTrigger(pad, TestVelocity, "triggerPad", ctx, retries, timers, threw)

\* a handler that awaits audioEngine.init() before it goes on; awaited tells
\* whether its init() found the context not running and awaits Tone.start()
Awaiting(kind, pad) ==
    [kind |-> kind, pad |-> pad, activePads |-> padGrid.rendered.activePads,
     awaited |-> context # "running"]

\* what the handler's audioEngine.init() does once the Tone.start() it awaits
\* has settled: resolved, the context runs and the master volume is set to
\* 0 dB; rejected, the catch logs and nothing is set, whatever the context has
\* become by then. An init() that found the context running has set the
\* volume when it was called, and does nothing more
InitContext(handler, resumed) ==
    IF handler.awaited /\ resumed THEN "running" ELSE context

InitDestination(handler, resumed) ==
    IF handler.awaited /\ resumed THEN MasterVolumeDb ELSE destination

\* ensureAudioActive after its await: setAudioInitialized(true)
Activated(handler) ==
    [padGrid EXCEPT !.audioInitialized = TRUE,
                    !.pending = @ (-) SetToBag({handler})]

\* a keydown event of a pad key, first or repeated: with audio initialised at
\* the last render the handler runs through; otherwise it calls
\* audioEngine.init() and waits
HandleKeyDown(pad, threw) ==
    /\ pad \in padGrid.held => padGrid.calls[pad] < MaxRepeats
    /\ IF padGrid.rendered.audioInitialized
       THEN /\ KeyDownBody(KeyHold(padGrid, pad), pad,
                           padGrid.rendered.activePads, context, threw)
            /\ UNCHANGED destination
       ELSE /\ ~threw
            /\ BagCardinality(padGrid.pending) < MaxHandlers
            /\ padGrid' = [KeyHold(padGrid, pad) EXCEPT !.pending =
                              @ (+) SetToBag({Awaiting("key", pad)})]
            /\ destination' = IF context = "running" THEN MasterVolumeDb
                                                     ELSE destination
            /\ UNCHANGED <<audioVars, last>>
    /\ UNCHANGED <<transportView, mixerView, editorView>>

\* audioEngine.init() has settled for a waiting keydown handler, and the
\* handler goes on; resumed tells whether the Tone.start() it awaited
\* resolved (an init() that awaited none is not rejected)
KeyDownResume(handler, resumed, threw) ==
    /\ BagIn(handler, padGrid.pending)
    /\ handler.kind = "key"
    /\ handler.awaited \/ resumed
    /\ destination' = InitDestination(handler, resumed)
    /\ KeyDownBody(Activated(handler), handler.pad, handler.activePads,
                   InitContext(handler, resumed), threw)
    /\ UNCHANGED <<transportView, mixerView, editorView>>

HandleKeyUp(pad) ==
    /\ pad \in padGrid.held
    /\ padGrid' = [padGrid EXCEPT !.held = @ \ {pad}, !.activePads = @ \ {pad}]
    /\ UNCHANGED <<audioVars, last, destination, transportView, mixerView, editorView>>

\* a click on a pad
HandlePadClick(pad, threw) ==
    /\ IF padGrid.rendered.audioInitialized
       THEN /\ BagCardinality(padGrid.flashes) < MaxClicks
            /\ PadClickBody(padGrid, pad, context, threw)
            /\ UNCHANGED destination
       ELSE /\ ~threw
            /\ BagCardinality(padGrid.pending) < MaxHandlers
            /\ padGrid' = [padGrid EXCEPT !.pending =
                              @ (+) SetToBag({Awaiting("click", pad)})]
            /\ destination' = IF context = "running" THEN MasterVolumeDb
                                                     ELSE destination
            /\ UNCHANGED <<audioVars, last>>
    /\ UNCHANGED <<transportView, mixerView, editorView>>

\* audioEngine.init() has settled for a waiting pad click
PadClickResume(handler, resumed, threw) ==
    /\ BagIn(handler, padGrid.pending)
    /\ handler.kind = "click"
    /\ handler.awaited \/ resumed
    /\ BagCardinality(padGrid.flashes) < MaxClicks
    /\ destination' = InitDestination(handler, resumed)
    /\ PadClickBody(Activated(handler), handler.pad, InitContext(handler, resumed),
                    threw)
    /\ UNCHANGED <<transportView, mixerView, editorView>>

\* the 100 ms timer of a pad click runs: the pad is unlit
PadClickTimeout(pad) ==
    /\ BagIn(pad, padGrid.flashes)
    /\ padGrid' = [padGrid EXCEPT !.activePads = @ \ {pad},
                                  !.flashes = @ (-) SetToBag({pad})]
    /\ UNCHANGED <<audioVars, last, destination, transportView, mixerView, editorView>>

\* a click on a pad's upload button with audio not initialised at the last
\* render; with audio initialised the handler only opens the file chooser
HandleUploadClick(pad) ==
    /\ ~padGrid.rendered.audioInitialized
    /\ BagCardinality(padGrid.pending) < MaxHandlers
    /\ padGrid' = [padGrid EXCEPT !.pending =
                      @ (+) SetToBag({Awaiting("upload", pad)})]
    /\ destination' = IF context = "running" THEN MasterVolumeDb ELSE destination
    /\ UNCHANGED <<audioVars, last, transportView, mixerView, editorView>>

\* audioEngine.init() has settled for a waiting upload click: the file
\* chooser opens, and a file chosen there is a loadSample call
UploadClickResume(handler, resumed) ==
    /\ BagIn(handler, padGrid.pending)
    /\ handler.kind = "upload"
    /\ handler.awaited \/ resumed
    /\ destination' = InitDestination(handler, resumed)
    /\ context' = InitContext(handler, resumed)
    /\ padGrid' = Activated(handler)
    /\ UNCHANGED <<samplesHeap, patternsHeap, samples, patterns, currentPattern,
                   isPlaying, isRecording, currentStep, bpm, players, panners,
                   sequence, transport, loads, timers, retries, nextBuffer,
                   exported, tickLog, now, last>>
    /\ UNCHANGED <<transportView, mixerView, editorView>>

(***************************************************************************)
(* The remaining public methods of the engine.                             *)
(***************************************************************************)
\* init() whose Tone.start() is rejected: the catch logs, nothing is set
InitAudioRejected ==
    /\ context # "running"
    /\ last' = Op("initRejected", -1, -1, -1)
    /\ UNCHANGED <<audioVars, destination, viewVars>>

\* testBasicAudio(): Tone.start() if the context is not running (resumed
\* tells whether it resolved; a rejection is caught and logged), then a test
\* tone on an oscillator of its own
TestBasicAudio(resumed) ==
    /\ context' = IF context = "running" \/ resumed THEN "running" ELSE context
    /\ last' = Op("testBasicAudio", -1, -1, -1)
    /\ UNCHANGED <<destination, viewVars>>
    /\ UNCHANGED <<samplesHeap, patternsHeap, samples, patterns, currentPattern,
                   isPlaying, isRecording, currentStep, bpm, players, panners,
                   sequence, transport, loads, timers, retries, nextBuffer,
                   exported, tickLog, now>>

\* testPadAudio(padIndex) called directly: one more 100 ms timer for the pad
TestPadAudioCall(pad) ==
    /\ BagCardinality(timers) < MaxTimers
    /\ timers' = timers (+) SetToBag({pad})
    /\ last' = Op("testPadAudioCall", pad, -1, -1)
    /\ UNCHANGED <<destination, viewVars>>
    /\ UNCHANGED <<samplesHeap, patternsHeap, samples, patterns, currentPattern,
                   isPlaying, isRecording, currentStep, bpm, players, panners,
                   sequence, transport, context, loads, retries, nextBuffer,
                   exported, tickLog, now>>

\* dispose(): stop(), then every player and panner and the sequence are
\* disposed: a disposed player holds no voice and no buffer any more, and
\* this.sequence keeps pointing at the disposed sequence
Dispose ==
    /\ isPlaying' = FALSE
    /\ currentStep' = 0
    /\ transport' = TransportStop(transport)
    /\ players' = [p \in Pads |->
                      [players[p] EXCEPT !.buffer = NoBuffer, !.state = "stopped",
                                         !.voices = 0, !.ahead = "none"]]
    /\ sequence' = [sequence EXCEPT !.live = FALSE]
    /\ last' = Op("dispose", -1, -1, -1)
    /\ UNCHANGED <<destination, viewVars>>
    /\ UNCHANGED <<samplesHeap, patternsHeap, samples, patterns, currentPattern,
                   isRecording, bpm, panners, context, loads, timers, retries,
                   nextBuffer, exported, tickLog, now>>

(***************************************************************************)
(* The engine as a whole: every public method of AudioEngine and every     *)
(* continuation it leaves behind.  The handlers of the components, and the *)
(* import that fails half way (after which getCurrentPattern() is          *)
(* undefined), are steps of the parts below only.                          *)
(***************************************************************************)
Next ==
    \/ InitAudio
    \/ InitAudioRejected
    \/ \E ok \in BOOLEAN : TestBasicAudio(ok)
    \/ \E v \in MasterInputs : SetMasterVolume(v)
    \/ Dispose
    \/ \E p \in ModelPads : TestPadAudioCall(p)
    \/ ContextSuspend
    \/ ClockTick
    \/ \E c \in ToggleCells :
          /\ c[2] < getCurrentPattern.length
          /\ ToggleStep(c[1], c[2])
    \/ \E c \in VelocityCells, v \in StepVelocities :
          /\ c[2] < getCurrentPattern.length
          /\ SetStepVelocity(c[1], c[2], v)
    \/ AddPattern
    \/ \E i \in PatternIndexInputs : SetCurrentPattern(i)
    \/ Play
    \/ Stop
    \/ Pause
    \/ StartRecording
    \/ StopRecording
    \/ \E b \in BpmInputs : SetBPM(b)
    \/ \E thrown \in SUBSET ModelPads : TickWith(thrown)
    \/ TickSuspended
    \/ Advance
    \/ \E p \in ModelPads, v \in TriggerVelocities, th \in BOOLEAN :
          TriggerPad(p, v, th)
    \/ \E r \in {x \in BagToSet(retries) : Len(x) = 2}, ok \in BOOLEAN, th \in BOOLEAN :
          RetryTrigger(r[1], r[2], ok, th)
    \/ \E r \in {x \in BagToSet(retries) : Len(x) = 3}, ok \in BOOLEAN, th \in BOOLEAN :
          TimedRetry(r[1], r[2], ok, th)
    \/ \E p \in BagToSet(timers) , th \in BOOLEAN : TestPadAudio(p, th)
    \/ \E p \in ModelPads : VoiceEnd(p)
    \/ \E p \in ModelPads : VoiceBegin(p)
    \/ \E p \in LoadPads, x \in TrimInputs \cup MixInputs : SetSampleProperty(p, x[1], x[2])
    \/ \E p \in LoadPads, f \in Files : LoadSample(p, f)
    \/ \E p \in LoadPads : \E k \in DOMAIN loads[p] : LoadRead(p, k)
    \/ \E p \in LoadPads, ok \in BOOLEAN : \E k \in DOMAIN loads[p] : LoadResume(p, k, ok)
    \/ \E p \in LoadPads : \E k \in DOMAIN loads[p] : LoadDecode(p, k)
    \/ \E p \in LoadPads : \E k \in DOMAIN loads[p] : LoadCommit(p, k)
    \/ ExportProject
    \/ \E k \in 1..Len(exported) : LoadProject(k)
    \/ ImportProject

Spec == Init /\ [][Next]_vars

(***************************************************************************)
(* Parts of the engine, each with the operations one group of properties   *)
(* is about.                                                               *)
(***************************************************************************)
GoodFiles == {f \in Files : f.readable /\ f.decodable}

\* project management: edits, export, load and import; samples load whole
NextProject ==
    \/ \E c \in VelocityCells :
          /\ c[2] < getCurrentPattern.length
          /\ ToggleStep(c[1], c[2])
    \/ \E c \in VelocityCells, v \in StepVelocities :
          /\ c[2] < getCurrentPattern.length
          /\ SetStepVelocity(c[1], c[2], v)
    \/ AddPattern
    \/ \E i \in {0, 1} : SetCurrentPattern(i)
    \/ \E b \in BpmInputs : SetBPM(b)
    \/ \E p \in LoadPads : SetSampleProperty(p, "startTime", 5)
    \/ ExportProject
    \/ \E k \in 1..Len(exported) : LoadProject(k)

SpecProject == Init /\ [][NextProject]_vars

\* exporting: edits between exportProject() calls, as wall-clock time passes
NextExport ==
    \/ ClockTick
    \/ ExportProject
    \/ \E c \in VelocityCells : ToggleStep(c[1], c[2])
    \/ \E c \in VelocityCells, v \in StepVelocities : SetStepVelocity(c[1], c[2], v)
    \/ AddPattern
    \/ \E i \in {0, 1} : SetCurrentPattern(i)
    \/ \E b \in BpmInputs : SetBPM(b)
    \/ \E p \in LoadPads : SetSampleProperty(p, "startTime", 5)

SpecExport == Init /\ [][NextExport]_vars

\* the transport and the scheduler: pattern edits and switches, transport
\* controls, the audio clock and the ticks of the live sequence
NextTransport ==
    \/ InitAudio
    \/ \E c \in VelocityCells :
          /\ c[2] < getCurrentPattern.length
          /\ ToggleStep(c[1], c[2])
    \/ \E c \in VelocityCells, v \in StepVelocities :
          /\ c[2] < getCurrentPattern.length
          /\ SetStepVelocity(c[1], c[2], v)
    \/ AddPattern
    \/ \E i \in {0, 1} : SetCurrentPattern(i)
    \/ ImportProject
    \/ Play
    \/ Stop
    \/ Pause
    \/ StartRecording
    \/ StopRecording
    \/ Tick
    \/ Advance

SpecTransport == Init /\ [][NextTransport]_vars

\* sample loading: loadSample calls with their awaits, the self-test trigger
\* each successful load schedules, manual triggers and sample edits
NextLoad ==
    \/ InitAudio
    \/ ContextSuspend
    \/ \E p \in LoadPads, f \in Files : LoadSampleAlone(p, f)
    \/ \E p \in LoadPads : \E k \in DOMAIN loads[p] : LoadRead(p, k)
    \/ \E p \in LoadPads, ok \in BOOLEAN : \E k \in DOMAIN loads[p] : LoadResume(p, k, ok)
    \/ \E p \in LoadPads : \E k \in DOMAIN loads[p] : LoadDecode(p, k)
    \/ \E p \in LoadPads : \E k \in DOMAIN loads[p] : LoadCommit(p, k)
    \/ \E p \in BagToSet(timers)  : TestPadAudio(p, FALSE)
    \/ \E r \in BagToSet(retries), ok \in BOOLEAN :
          RetryTrigger(r[1], r[2], ok, FALSE)
    \/ \E p \in ModelPads, v \in TriggerVelocities : TriggerPad(p, v, FALSE)
    \/ \E p \in LoadPads, x \in LoadEdits : SetSampleProperty(p, x[1], x[2])

SpecLoad == Init /\ [][NextLoad]_vars

\* loadSample calls that overlap on one pad, with every outcome of their
\* awaits, the test triggers they schedule and a trim edit
NextOverlap ==
    \/ \E p \in LoadPads, f \in Files : LoadSample(p, f)
    \/ \E p \in LoadPads : \E k \in DOMAIN loads[p] : LoadRead(p, k)
    \/ \E p \in LoadPads, ok \in BOOLEAN : \E k \in DOMAIN loads[p] : LoadResume(p, k, ok)
    \/ \E p \in LoadPads : \E k \in DOMAIN loads[p] : LoadDecode(p, k)
    \/ \E p \in LoadPads : \E k \in DOMAIN loads[p] : LoadCommit(p, k)
    \/ \E p \in BagToSet(timers)  : TestPadAudio(p, FALSE)
    \/ \E p \in LoadPads : SetSampleProperty(p, "startTime", 5)

SpecOverlap == Init /\ [][NextOverlap]_vars

\* recording: manual triggers on a loaded and on an empty pad while the
\* transport runs over the default or over a shorter imported pattern
NextRecord ==
    \/ \E p \in LoadPads, f \in GoodFiles : LoadSampleAlone(p, f)
    \/ \E p \in LoadPads : \E k \in DOMAIN loads[p] : LoadRead(p, k)
    \/ \E p \in LoadPads : \E k \in DOMAIN loads[p] : LoadResume(p, k, TRUE)
    \/ \E p \in LoadPads : \E k \in DOMAIN loads[p] : LoadDecode(p, k)
    \/ \E p \in LoadPads : \E k \in DOMAIN loads[p] : LoadCommit(p, k)
    \/ \E p \in BagToSet(timers)  : TestPadAudio(p, FALSE)
    \/ \E p \in ModelPads, v \in TriggerVelocities : TriggerPad(p, v, FALSE)
    \/ ImportProject
    \/ StartRecording
    \/ Stop
    \/ Tick
    \/ Advance

SpecRecord == Init /\ [][NextRecord]_vars

\* tempo changes while the transport is stopped, playing or paused
NextTempo ==
    \/ InitAudio
    \/ \E c \in VelocityCells : ToggleStep(c[1], c[2])
    \/ Play
    \/ Stop
    \/ Pause
    \/ StartRecording
    \/ \E b \in BpmInputs : SetBPM(b)
    \/ Tick
    \/ Advance

SpecTempo == Init /\ [][NextTempo]_vars

\* trimming: triggers, manual and retried, on a loaded pad whose start and
\* end points are edited
NextTrim ==
    \/ ContextSuspend
    \/ \E p \in LoadPads, f \in GoodFiles : LoadSampleAlone(p, f)
    \/ \E p \in LoadPads : \E k \in DOMAIN loads[p] : LoadRead(p, k)
    \/ \E p \in LoadPads : \E k \in DOMAIN loads[p] : LoadResume(p, k, TRUE)
    \/ \E p \in LoadPads : \E k \in DOMAIN loads[p] : LoadDecode(p, k)
    \/ \E p \in LoadPads : \E k \in DOMAIN loads[p] : LoadCommit(p, k)
    \/ \E p \in BagToSet(timers)  : TestPadAudio(p, FALSE)
    \/ \E r \in BagToSet(retries), ok \in BOOLEAN :
          RetryTrigger(r[1], r[2], ok, FALSE)
    \/ \E p \in LoadPads, v \in TriggerVelocities, th \in BOOLEAN :
          TriggerPad(p, v, th)
    \/ \E p \in LoadPads, x \in TrimInputs : SetSampleProperty(p, x[1], x[2])
    \/ \E p \in LoadPads : VoiceEnd(p)

SpecTrim == Init /\ [][NextTrim]_vars

\* pattern switching, with indices inside and outside the list, while the
\* sequence runs
NextSwitch ==
    \/ InitAudio
    \/ \E c \in VelocityCells : ToggleStep(c[1], c[2])
    \/ AddPattern
    \/ \E i \in PatternIndexInputs : SetCurrentPattern(i)
    \/ Play
    \/ Pause
    \/ Tick
    \/ Advance

SpecSwitch == Init /\ [][NextSwitch]_vars

\* voices: manual triggers and scheduler triggers on the same loaded pad,
\* voices ending, samples being replaced
NextVoices ==
    \/ \E p \in LoadPads, f \in GoodFiles : LoadSampleAlone(p, f)
    \/ \E p \in LoadPads : \E k \in DOMAIN loads[p] : LoadRead(p, k)
    \/ \E p \in LoadPads : \E k \in DOMAIN loads[p] : LoadResume(p, k, TRUE)
    \/ \E p \in LoadPads : \E k \in DOMAIN loads[p] : LoadDecode(p, k)
    \/ \E p \in LoadPads : \E k \in DOMAIN loads[p] : LoadCommit(p, k)
    \/ \E p \in BagToSet(timers) , th \in BOOLEAN : TestPadAudio(p, th)
    \/ \E p \in ModelPads, v \in TriggerVelocities, th \in BOOLEAN :
          TriggerPad(p, v, th)
    \/ \E c \in VelocityCells : ToggleStep(c[1], c[2])
    \/ Play
    \/ Stop
    \/ Tick
    \/ Advance
    \/ \E p \in LoadPads : VoiceEnd(p)

SpecVoices == Init /\ [][NextVoices]_vars

(***************************************************************************)
(* What a caller can observe of a set of samples and patterns.             *)
(***************************************************************************)
ObservableSamples(sampleArray) ==
    [i \in DOMAIN sampleArray |->
        [startTime |-> sampleArray[i].startTime, endTime |-> sampleArray[i].endTime,
         volume |-> sampleArray[i].volume, pan |-> sampleArray[i].pan,
         buffer |-> sampleArray[i].buffer]]

ObservablePatterns(patternArray) ==
    [j \in DOMAIN patternArray |->
        [length |-> patternArray[j].length, steps |-> patternArray[j].steps,
         velocities |-> patternArray[j].velocities]]

Observable(sh, ph, s, p, c, b) ==
    [samples |-> ObservableSamples(sh[s]), patterns |-> ObservablePatterns(ph[p]),
     currentPattern |-> c, bpm |-> b]

(***************************************************************************)
(* C1: loadProject(exportProject()) leaves the engine observably as it     *)
(* was: per pad the same trim, volume, pan and buffer, the same patterns,  *)
(* the same active pattern index and the same BPM.                         *)
(***************************************************************************)
RoundTripIdentity ==
    [][(last.op = "exportProject" /\ LoadProject(Len(exported)))
        => Observable(samplesHeap', patternsHeap', samples', patterns',
                      currentPattern', bpm')
           = Observable(samplesHeap, patternsHeap, samples, patterns,
                        currentPattern, bpm)]_vars

\* a round trip made with the second pattern active, an edited step and
\* velocity, a trimmed sample and a changed tempo
RoundTripWitness ==
    /\ last.op = "loadProject"
    /\ last.step = 1
    /\ currentPattern = 1
    /\ bpm = 90
    /\ getCurrentPattern.steps[3][0]
    /\ getCurrentPattern.velocities[3][0] = 5
    /\ SamplesOf(samples)[3].startTime = 5

\* everything a Project value holds, the contents of its arrays included
ProjectContents(project, sh, ph) ==
    [id |-> project.id, name |-> project.name,
     state |-> Observable(sh, ph, project.samples, project.patterns,
                          project.currentPattern, project.bpm)]

(***************************************************************************)
(* C6: a Project value returned by exportProject() is a stable snapshot:   *)
(* no later engine operation changes the samples, patterns, active pattern *)
(* index or BPM it holds.                                                  *)
(***************************************************************************)
SnapshotStable ==
    [][exported' = exported
        => \A k \in 1..Len(exported) :
              ProjectContents(exported[k], samplesHeap', patternsHeap').state
              = ProjectContents(exported[k], samplesHeap, patternsHeap).state]_vars

(***************************************************************************)
(* C7: two consecutive exportProject() calls with no engine mutation       *)
(* between them return deep-equal Project values (id, name, samples,       *)
(* patterns, active pattern index, bpm), whatever time elapses in between. *)
(***************************************************************************)
ExportTwiceDeepEqual ==
    [][(last.op = "exportProject" /\ ExportProject)
        => ProjectContents(exported'[Len(exported')], samplesHeap', patternsHeap')
           = ProjectContents(exported[Len(exported)], samplesHeap, patternsHeap)]_vars

(***************************************************************************)
(* C3: while playing, a tick with step s sets currentStep to s and calls   *)
(* triggerPad(p, velocities[p][s], time) for exactly the pads p whose      *)
(* steps[p][s] is on in the pattern active at that tick, also after        *)
(* setCurrentPattern or loadProject changed it; the ticks of a schedule    *)
(* carry the steps 0, 1, ... in cyclic order, so a pattern with one cell   *)
(* on gets exactly one trigger per cycle, at that cell's step.             *)
(***************************************************************************)
ActiveCells(step) ==
    {<<p, getCurrentPattern.velocities[p][step]>> :
        p \in {q \in Pads : getCurrentPattern.steps[q][step]}}

TickTriggersActiveCells ==
    /\ last.op = "tick" =>
          /\ Len(tickLog) > 0
          /\ currentStep = last.step
          /\ tickLog[Len(tickLog)].step = last.step
          /\ tickLog[Len(tickLog)].calls = ActiveCells(last.step)
    /\ \A i \in 1..Len(tickLog) :
          /\ tickLog[i].step = (i - 1) % getCurrentPattern.length
          /\ {c[1] : c \in tickLog[i].calls}
             = {c[1] : c \in ActiveCells(tickLog[i].step)}

\* a tick of the second pattern, made active by setCurrentPattern, that
\* triggers pad 3 alone, with the velocity set for that cell
TickWitness ==
    /\ last.op = "tick"
    /\ currentPattern = 1
    /\ currentStep = 0
    /\ tickLog[Len(tickLog)].calls = {<<3, 5>>}
    /\ PatternsOf(patterns)[0].steps[3][0] = FALSE

\* the schedule of a short imported pattern has wrapped around to step 0
TickCycleWitness ==
    /\ last.op = "tick"
    /\ Len(tickLog) = getCurrentPattern.length + 1
    /\ currentStep = 0
    /\ tickLog[1].calls = {<<5, DefaultVelocity>>}
    /\ \A i \in 2..getCurrentPattern.length : tickLog[i].calls = {}

(***************************************************************************)
(* C5: startRecording() sets isRecording from every state; when the        *)
(* transport was not playing it starts playing as by play(), and when it   *)
(* was playing, isPlaying, currentStep and the running schedule are left   *)
(* as they were.                                                           *)
(***************************************************************************)
StartRecordingEffect ==
    [][StartRecording =>
        /\ isRecording'
        /\ isPlaying'
        /\ currentStep' = currentStep
        /\ IF isPlaying
           THEN UNCHANGED <<sequence, transport, tickLog>>
           ELSE /\ transport'.state = "started"
                /\ transport'.ticks = transport.ticks
                /\ sequence'.started
                /\ sequence'.startTick = transport.ticks
                /\ sequence'.arr = patterns /\ sequence'.idx = currentPattern]_vars

\* recording switched on while the schedule was running: its ticks so far stand
StartRecordingWitness ==
    /\ last.op = "startRecording"
    /\ isRecording
    /\ isPlaying
    /\ Len(tickLog) > 1
    /\ transport.ticks > 0

(***************************************************************************)
(* C2: every pattern's steps and velocities matrices have exactly 16 rows  *)
(* and `length` columns, in every reachable state.                         *)
(***************************************************************************)
WellShaped(pat) ==
    /\ Len0(pat.steps) = NumPads
    /\ Len0(pat.velocities) = NumPads
    /\ \A r \in DOMAIN pat.steps : Len0(pat.steps[r]) = pat.length
    /\ \A r \in DOMAIN pat.velocities : Len0(pat.velocities[r]) = pat.length

PatternShape ==
    \A j \in DOMAIN PatternsOf(patterns) : WellShaped(PatternsOf(patterns)[j])

(***************************************************************************)
(* C4: while recording, a manual triggerPad(pad, velocity) on any pad,     *)
(* loaded or empty, sets steps[pad][q] and velocities[pad][q] of the       *)
(* active pattern within the call, q being the floor of the transport      *)
(* position in 16th-note steps (0 right after startRecording() from        *)
(* Stopped), and changes no other cell.                                    *)
(***************************************************************************)
PositionInSteps == (transport.ticks * 4) \div PPQ

OtherCellsUnchanged(pad, q) ==
    /\ \A j \in DOMAIN PatternsOf(patterns) :
          j # currentPattern => PatternsOf(patterns)'[j] = PatternsOf(patterns)[j]
    /\ \A r \in Pads, c \in 0..(getCurrentPattern.length - 1) :
          <<r, c>> # <<pad, q>> =>
             /\ ArrayGet(getCurrentPattern'.steps[r], c, FALSE)
                = getCurrentPattern.steps[r][c]
             /\ ArrayGet(getCurrentPattern'.velocities[r], c, Undefined)
                = getCurrentPattern.velocities[r][c]

RecordingTriggerWrites ==
    [][\A p \in ModelPads, v \in TriggerVelocities :
          (isRecording /\ \E th \in BOOLEAN : TriggerPad(p, v, th)) =>
             /\ ArrayGet(getCurrentPattern'.steps[p], PositionInSteps, FALSE)
             /\ ArrayGet(getCurrentPattern'.velocities[p], PositionInSteps, Undefined) = v
             /\ OtherCellsUnchanged(p, PositionInSteps)]_vars

(***************************************************************************)
(* C8: a loadSample call that fails at one of its awaits (reading the      *)
(* bytes, resuming the context, decoding) has changed nothing: the samples,*)
(* the playback nodes, the patterns and the transport are as they were,    *)
(* and no error escapes the call.                                          *)
(***************************************************************************)
\* a step of a loadSample call that has not reached its synchronous update
LoadStepBeforeUpdate(p) ==
    /\ loads'[p] # loads[p]
    /\ \A k \in DOMAIN loads[p] : ~LoadCommit(p, k)

LoadFailureAtomic ==
    [][\A p \in LoadPads :
          /\ LoadStepBeforeUpdate(p) =>
                UNCHANGED <<samplesHeap, patternsHeap, samples, patterns,
                            currentPattern, isPlaying, isRecording, currentStep,
                            bpm, players, panners, sequence, transport, timers,
                            retries>>
          /\ \A k \in DOMAIN loads'[p] :
                loads'[p][k].error # "none" => loads'[p][k].outcome # "rejected"]_vars

\* a decode failure on a pad that holds a trimmed sample from an earlier load:
\* the sample, its trim and its player are still there
LoadFailureWitness ==
    /\ last.op = "loadDecode"
    /\ \E k \in DOMAIN loads[3] :
          loads[3][k].error = "decode" /\ loads[3][k].pc = "idle"
    /\ SamplesOf(samples)[3].buffer # NoBuffer
    /\ SamplesOf(samples)[3].startTime = 5
    /\ players[3].buffer = SamplesOf(samples)[3].buffer

(***************************************************************************)
(* C9: when the bytes cannot be decoded, the caller of loadSample observes *)
(* an error outcome.                                                       *)
(***************************************************************************)
DecodeFailureReported ==
    \A p \in LoadPads, k \in 1..MaxInFlight :
       (k \in DOMAIN loads[p] /\ loads[p][k].error = "decode") =>
          loads[p][k].outcome = "rejected"

(***************************************************************************)
(* C10: after a successful loadSample the pad's sample holds the new       *)
(* buffer with startTime 0 and endTime 1, its volume and pan are kept, its *)
(* playback node is bound to the new buffer and every other pad's sample   *)
(* is unchanged.                                                           *)
(***************************************************************************)
LoadSuccessResetsTrim ==
    [][\A p \in LoadPads, k \in 1..MaxInFlight :
          LoadCommit(p, k) =>
             /\ SamplesOf(samples)'[p].buffer = loads[p][k].buffer
             /\ SamplesOf(samples)'[p].startTime = 0
             /\ SamplesOf(samples)'[p].endTime = 10
             /\ SamplesOf(samples)'[p].volume = SamplesOf(samples)[p].volume
             /\ SamplesOf(samples)'[p].pan = SamplesOf(samples)[p].pan
             /\ players'[p].buffer = loads[p][k].buffer
             /\ \A o \in Pads \ {p} : SamplesOf(samples)'[o] = SamplesOf(samples)[o]]_vars

(***************************************************************************)
(* C11: toggleStep(pad, step) flips exactly the cell steps[pad][step] of   *)
(* the active pattern: no other step cell, no velocity and no other        *)
(* pattern changes, and toggling the same cell again gives back the        *)
(* pattern as it was.                                                      *)
(***************************************************************************)
ToggleFlipsOneCell ==
    [][\A c \in VelocityCells :
          ToggleStep(c[1], c[2]) =>
             /\ PatternsOf(patterns)' =
                   [PatternsOf(patterns) EXCEPT
                       ![currentPattern].steps[c[1]][c[2]] = ~@]
             /\ currentPattern' = currentPattern
             /\ toggleStep(getCurrentPattern', c[1], c[2]) = getCurrentPattern]_vars

\* a cell of the second pattern switched off again by a second toggle, its
\* edited velocity still in place
ToggleWitness ==
    /\ last = Op("toggleStep", 3, 0, -1)
    /\ currentPattern = 1
    /\ ~getCurrentPattern.steps[3][0]
    /\ getCurrentPattern.velocities[3][0] = 5

(***************************************************************************)
(* C12: setBPM(x) makes getBPM() return x at once and changes nothing      *)
(* else: currentStep, isPlaying, isRecording, the clock's position, the    *)
(* live schedule, the active pattern index, the patterns and the samples   *)
(* stay as they are, whether the transport is stopped, paused or playing.  *)
(***************************************************************************)
SetBpmOnlyTempo ==
    [][\A b \in BpmInputs :
          SetBPM(b) =>
             /\ bpm' = b
             /\ transport'.bpm = b
             /\ transport'.ticks = transport.ticks
             /\ transport'.state = transport.state
             /\ UNCHANGED <<currentStep, isPlaying, isRecording, sequence,
                            currentPattern, patterns, patternsHeap, samples,
                            samplesHeap>>]_vars

\* the tempo changed in the middle of a playing pattern
SetBpmPlayingWitness ==
    /\ last.op = "setBPM"
    /\ bpm = 90
    /\ isPlaying
    /\ transport.state = "started"
    /\ currentStep = 1
    /\ transport.ticks > 0

(***************************************************************************)
(* C13: addPattern() makes the pattern count one larger, appends at the    *)
(* end, with the existing patterns and their order untouched, a pattern of *)
(* length 16 whose 16x16 steps are all false and whose 16x16 velocities    *)
(* are all 0.8, returns that pattern and leaves the active index as it is. *)
(***************************************************************************)
AllCells(matrix, rows, columns, value) ==
    /\ DOMAIN matrix = 0..(rows - 1)
    /\ \A r \in DOMAIN matrix :
          /\ DOMAIN matrix[r] = 0..(columns - 1)
          /\ \A c \in DOMAIN matrix[r] : matrix[r][c] = value

AddPatternAppendsEmpty ==
    [][AddPattern =>
          /\ NumPatterns' = NumPatterns + 1
          /\ \A j \in DOMAIN PatternsOf(patterns) :
                PatternsOf(patterns)'[j] = PatternsOf(patterns)[j]
          /\ PatternsOf(patterns)'[NumPatterns].length = 16
          /\ AllCells(PatternsOf(patterns)'[NumPatterns].steps, 16, 16, FALSE)
          /\ AllCells(PatternsOf(patterns)'[NumPatterns].velocities, 16, 16, 8)
          /\ last'.val = NumPatterns
          /\ currentPattern' = currentPattern]_vars

\* a pattern appended behind an edited first pattern, which stays the active one
AddPatternWitness ==
    /\ last.op = "addPattern"
    /\ NumPatterns = 2
    /\ currentPattern = 0
    /\ PatternsOf(patterns)[0].steps[3][0]
    /\ PatternsOf(patterns)[0].velocities[3][0] = 5
    /\ ~PatternsOf(patterns)[1].steps[3][0]

(***************************************************************************)
(* C14, as amended: for a loaded pad whose sample has                      *)
(* 0 <= startTime < endTime <= 1 and a buffer of positive duration,        *)
(* triggerPad computes an offset >= 0 and a length > 0 with offset +       *)
(* length within the buffer and does not skip the trigger as invalid. With *)
(* the audio context running at the call it starts a voice with that       *)
(* window, unless player.start throws: then no voice is started. With the  *)
(* context not running the call starts no voice and leaves one retry.      *)
(* The claim as given (TrimmedTriggerStartsVoice below) has a voice        *)
(* started by every such call.                                             *)
(***************************************************************************)
WellTrimmed(s) ==
    /\ s.buffer # NoBuffer
    /\ s.buffer.duration > 0
    /\ 0 <= s.startTime
    /\ s.startTime < s.endTime
    /\ s.endTime <= 10

VoiceWithinBuffer(player) ==
    /\ player.state = "started"
    /\ player.offset >= 0
    /\ player.duration > 0
    /\ player.offset + player.duration <= player.buffer.duration * 10

\* what a triggerPad(p, v) call that met the context in state ctx has left,
\* threw telling whether player.start threw
TrimmedCallOutcome(p, v, ctx, threw) ==
    LET s == SamplesOf(samples)[p] IN
    /\ TriggerStart(s) >= 0
    /\ TriggerDuration(s) > 0
    /\ TriggerStart(s) + TriggerDuration(s) <= s.buffer.duration * 10
    /\ IF ctx # "running"
       THEN /\ players' = players
            /\ BagIn(<<p, v>>, retries')
       ELSE IF threw
       THEN /\ players'[p].state = "stopped"
            /\ players'[p].voices = 0
       ELSE /\ VoiceWithinBuffer(players'[p])
            /\ players'[p].offset = TriggerStart(s)
            /\ players'[p].duration = TriggerDuration(s)

TrimmedTriggerPlays ==
    [][\A p \in ModelPads, v \in TriggerVelocities :
          WellTrimmed(SamplesOf(samples)[p]) =>
             /\ \A th \in BOOLEAN :
                   TriggerPad(p, v, th) =>
                      /\ TrimmedCallOutcome(p, v, context, th)
                      /\ context # "running" =>
                            retries' = retries (+) SetToBag({<<p, v>>})
             /\ \A ok \in BOOLEAN, th \in BOOLEAN :
                   RetryTrigger(p, v, ok, th) =>
                      TrimmedCallOutcome(p, v, IF ok THEN "running" ELSE context, th)]_vars

\* C14 as given: every triggerPad call on such a pad starts a voice within
\* the buffer, here for the calls whose player.start returns
TrimmedTriggerStartsVoice ==
    [][\A p \in ModelPads, v \in TriggerVelocities :
          (WellTrimmed(SamplesOf(samples)[p]) /\ TriggerPad(p, v, FALSE)) =>
             VoiceWithinBuffer(players'[p])]_vars

\* a voice started in the second half of the buffer
TrimmedTriggerWitness ==
    /\ last.op = "triggerPad"
    /\ last.pad = 3
    /\ SamplesOf(samples)[3].startTime = 5
    /\ SamplesOf(samples)[3].endTime = 10
    /\ players[3].state = "started"
    /\ players[3].offset = 100
    /\ players[3].duration = 100

\* a trigger the code skips: start and end point coincide
SkippedTriggerWitness ==
    /\ last.op = "triggerPad"
    /\ last.pad = 3
    /\ context = "running"
    /\ SamplesOf(samples)[3].buffer # NoBuffer
    /\ SamplesOf(samples)[3].startTime = 5
    /\ SamplesOf(samples)[3].endTime = 5
    /\ players[3].state = "stopped"
    /\ InFlight(3) = {}
    /\ ~BagIn(3, timers)

(***************************************************************************)
(* C15: play() while the transport is already playing is a no-op:          *)
(* isPlaying, currentStep, the live schedule and the clock's position are  *)
(* unchanged; the schedule is not rebuilt and the pattern not restarted.   *)
(***************************************************************************)
PlayWhilePlayingNoOp ==
    [][(isPlaying /\ Play) =>
          UNCHANGED <<isPlaying, isRecording, currentStep, sequence, tickLog,
                      transport, currentPattern, patterns, patternsHeap,
                      players>>]_vars

\* play() called after the running sequence has played steps 0 and 1
PlayWhilePlayingWitness ==
    /\ last.op = "play"
    /\ isPlaying
    /\ transport.state = "started"
    /\ Len(tickLog) >= 2
    /\ currentStep = 1
    /\ sequence.next > sequence.startTick

(***************************************************************************)
(* C16: stop(), from any transport state, leaves isPlaying false and       *)
(* currentStep 0 with patterns, samples and BPM unchanged, and currentStep *)
(* stays 0 for as long as the transport is stopped, that is until the next *)
(* play().                                                                 *)
(***************************************************************************)
StopResetsStep ==
    [][/\ Stop =>
             /\ ~isPlaying'
             /\ currentStep' = 0
             /\ UNCHANGED <<patterns, patternsHeap, samples, samplesHeap, bpm,
                            currentPattern>>
       /\ transport'.state = "stopped" => (currentStep' = 0 /\ ~isPlaying')]_vars

\* stop() after the running sequence has played steps 0 and 1
StopWitness ==
    /\ last.op = "stop"
    /\ Len(tickLog) >= 2
    /\ tickLog[Len(tickLog)].step = 1
    /\ currentStep = 0
    /\ ~isPlaying
    /\ transport.state = "stopped"

(***************************************************************************)
(* C17: pause() leaves isPlaying false and keeps currentStep: the value is *)
(* the same right after pause() and after every later step of the engine   *)
(* that is not a play(), a stop() or a startRecording().                   *)
(***************************************************************************)
PausePreservesStep ==
    [][/\ Pause => (~isPlaying' /\ currentStep' = currentStep)
       /\ (~isPlaying /\ ~Play /\ ~Stop /\ ~StartRecording) =>
             (currentStep' = currentStep /\ ~isPlaying')]_vars

\* paused in the middle of the pattern, then edited: the step is still 1
PauseWitness ==
    /\ last.op = "toggleStep"
    /\ transport.state = "paused"
    /\ transport.ticks > 0
    /\ ~isPlaying
    /\ currentStep = 1

(***************************************************************************)
(* C18: setCurrentPattern(index) with index < 0 or index >= the number of  *)
(* patterns changes nothing; with a valid index getCurrentPattern()        *)
(* returns patterns[index] and every later tick plays that pattern.        *)
(***************************************************************************)
SetCurrentPatternSwitches ==
    [][/\ \A i \in PatternIndexInputs :
             SetCurrentPattern(i) =>
                IF i >= 0 /\ i < NumPatterns
                THEN /\ currentPattern' = i
                     /\ getCurrentPattern' = PatternsOf(patterns)[i]
                ELSE UNCHANGED <<currentPattern, sequence, tickLog, transport,
                                 isPlaying, isRecording, currentStep,
                                 patterns, patternsHeap>>
       /\ Tick =>
             /\ currentStep' < getCurrentPattern.length
             /\ tickLog'[Len(tickLog')].calls
                = {<<p, getCurrentPattern.velocities[p][currentStep']>> :
                      p \in {q \in Pads : getCurrentPattern.steps[q][currentStep']}}]_vars

\* a tick that plays the cell only the second pattern has, after the switch
SwitchWitness ==
    /\ last.op = "tick"
    /\ currentPattern = 1
    /\ PatternsOf(patterns)[1].steps[3][0]
    /\ ~PatternsOf(patterns)[0].steps[3][0]
    /\ tickLog[Len(tickLog)].step = 0
    /\ tickLog[Len(tickLog)].calls = {<<3, 8>>}

\* an index past the end, given while the second pattern plays
SwitchOutOfRangeWitness ==
    /\ last = Op("setCurrentPattern", -1, -1, 2)
    /\ currentPattern = 1
    /\ isPlaying
    /\ Len(tickLog) >= 1

(***************************************************************************)
(* C19: every pad channel is monophonic: in every reachable state at most  *)
(* one voice per pad is sounding or scheduled, and a triggerPad that       *)
(* starts a voice on a pad, manual or issued by the scheduler, first cuts  *)
(* the voice the pad had, a voice the scheduler has just issued included.  *)
(***************************************************************************)
MonophonicPads ==
    \A p \in Pads :
       /\ players[p].voices <= 1
       /\ players[p].state = "started" <=> players[p].voices = 1

\* a manual trigger that cut the voice the scheduler had issued for step 0
RetriggerCutWitness ==
    /\ last.op = "triggerPad"
    /\ last.pad = 3
    /\ Len(tickLog) = 1
    /\ tickLog[1].calls = {<<3, 8>>}
    /\ players[3].cut
    /\ players[3].voices = 1
    /\ players[3].gain = FinalGain(6, 8)

(***************************************************************************)
(* C20: triggerPad on a pad that has no sample is a no-op: no voice is     *)
(* started on any pad, at once or by a retry, and the samples and the      *)
(* transport state (isPlaying, isRecording, currentStep, BPM) are          *)
(* unchanged; the same holds for the triggers a tick issues for such pads. *)
(***************************************************************************)
EmptyPadTriggerNoOp ==
    [][/\ \A p \in ModelPads, v \in TriggerVelocities :
             (SamplesOf(samples)[p].buffer = NoBuffer /\ TriggerPad(p, v, FALSE)) =>
                UNCHANGED <<players, retries, timers, samples, samplesHeap,
                            isPlaying, isRecording, currentStep, bpm, transport>>
       /\ Tick =>
             \A p \in Pads :
                SamplesOf(samples)[p].buffer = NoBuffer => players'[p] = players[p]]_vars

\* the empty pad 5 triggered by hand while recording runs and pad 3 sounds
EmptyPadTriggerWitness ==
    /\ last = Op("triggerPad", 5, -1, 6)
    /\ SamplesOf(samples)[5].buffer = NoBuffer
    /\ context = "running"
    /\ isRecording
    /\ isPlaying
    /\ players[3].state = "started"
    /\ players[5].state = "stopped"

(***************************************************************************)
(* C21: a triggerPad on a loaded pad while the audio context is not        *)
(* running starts no voice and asks the context to resume; once the        *)
(* resumption has completed the trigger is made again exactly once per     *)
(* original call: the continuation runs the trigger and leaves no further  *)
(* retry behind, also when it finds the context not running.               *)
(***************************************************************************)
RetriedExactlyOnce ==
    [][\A p \in ModelPads, v \in TriggerVelocities :
          /\ (SamplesOf(samples)[p].buffer # NoBuffer /\ context # "running"
                /\ TriggerPad(p, v, FALSE)) =>
                /\ players' = players
                /\ retries' = retries (+) SetToBag({<<p, v>>})
          /\ \A ok \in BOOLEAN, th \in BOOLEAN :
                RetryTrigger(p, v, ok, th) =>
                   retries' = retries (-) SetToBag({<<p, v>>})]_vars

(***************************************************************************)
(* The components in use.                                                  *)
(***************************************************************************)
\* values the trim sliders deliver, in tenths
SliderValues == {0, 5, 10}

\* numbers typed into the BPM field
BpmFieldInputs == {30, 60, 200, 250}

\* the WaveformEditor's trim sliders, with loading and project round trips
NextEditor ==
    \/ \E p \in LoadPads, f \in GoodFiles : LoadSampleAlone(p, f)
    \/ \E p \in LoadPads : \E k \in DOMAIN loads[p] : LoadRead(p, k)
    \/ \E p \in LoadPads : \E k \in DOMAIN loads[p] : LoadResume(p, k, TRUE)
    \/ \E p \in LoadPads : \E k \in DOMAIN loads[p] : LoadDecode(p, k)
    \/ \E p \in LoadPads : \E k \in DOMAIN loads[p] : LoadCommit(p, k)
    \/ \E p \in BagToSet(timers)  : TestPadAudio(p, FALSE)
    \/ \E p \in LoadPads : EditorSelect(p)
    \/ \E p \in LoadPads, v \in SliderValues : HandleStartTimeChange(p, v)
    \/ \E p \in LoadPads, v \in SliderValues : HandleEndTimeChange(p, v)
    \/ ExportProject
    \/ \E k \in 1..Len(exported) : LoadProject(k)

SpecEditor == Init /\ [][NextEditor]_vars

\* the Transport's buttons and BPM field, its polling, and another caller of
\* setBPM
NextControls ==
    \/ TransportPoll
    \/ HandlePlay
    \/ HandleStop
    \/ HandleRecord
    \/ \E typed \in BpmFieldInputs : HandleBpmInput(typed)
    \/ HandleBpmMinus
    \/ HandleBpmPlus
    \/ \E b \in BpmInputs : SetBPM(b)

SpecControls == Init /\ [][NextControls]_vars

\* the Mixer's sliders, and other callers that set the master volume:
\* setMasterVolume itself, and the init() of a PadGrid handler
NextMixer ==
    \/ InitAudio
    \/ ContextSuspend
    \/ \E p \in LoadPads : HandleUploadClick(p)
    \/ \E h \in BagToSet(padGrid.pending), ok \in BOOLEAN : UploadClickResume(h, ok)
    \/ PadGridRender
    \/ \E v \in SliderValues : SetMasterVolume(v)
    \/ \E v \in SliderValues : HandleMasterVolumeChange(v)
    \/ \E p \in ModelPads, x \in MixInputs :
          IF x[1] = "volume" THEN HandleVolumeChange(p, x[2])
                             ELSE HandlePanChange(p, x[2])

SpecMixer == Init /\ [][NextMixer]_vars

\* the PadGrid's key for a pad, before and after its sample loads
NextPadGrid ==
    \/ \E p \in LoadPads, f \in GoodFiles : LoadSampleAlone(p, f)
    \/ \E p \in LoadPads : \E k \in DOMAIN loads[p] : LoadRead(p, k)
    \/ \E p \in LoadPads : \E k \in DOMAIN loads[p] : LoadResume(p, k, TRUE)
    \/ \E p \in LoadPads : \E k \in DOMAIN loads[p] : LoadDecode(p, k)
    \/ \E p \in LoadPads : \E k \in DOMAIN loads[p] : LoadCommit(p, k)
    \/ \E p \in LoadPads , th \in BOOLEAN : HandleKeyDown(p, th)
    \/ \E h \in BagToSet(padGrid.pending), ok \in BOOLEAN, th \in BOOLEAN :
          KeyDownResume(h, ok, th)
    \/ \E p \in LoadPads : HandleKeyUp(p)
    \/ \E p \in LoadPads , th \in BOOLEAN : HandlePadClick(p, th)
    \/ \E h \in BagToSet(padGrid.pending), ok \in BOOLEAN, th \in BOOLEAN :
          PadClickResume(h, ok, th)
    \/ \E p \in BagToSet(padGrid.flashes) : PadClickTimeout(p)
    \/ \E p \in LoadPads : HandleUploadClick(p)
    \/ \E h \in BagToSet(padGrid.pending), ok \in BOOLEAN : UploadClickResume(h, ok)
    \/ PadGridRender
    \/ \E p \in LoadPads : VoiceEnd(p)

SpecPadGrid == Init /\ [][NextPadGrid]_vars

\* C22: every pad whose sample has a buffer satisfies
\* 0 <= startTime < endTime <= 1 (trim points in tenths), whatever the
\* WaveformEditor's sliders, loadSample and loadProject(exportProject()) did
LoadedPadsWellTrimmed ==
    \A p \in Pads :
        SamplesOf(samples)[p].buffer # NoBuffer =>
            /\ 0 <= SamplesOf(samples)[p].startTime
            /\ SamplesOf(samples)[p].startTime < SamplesOf(samples)[p].endTime
            /\ SamplesOf(samples)[p].endTime <= 10

\* C23: whatever is typed into the Transport's BPM field and however often
\* + and - are clicked, the engine's BPM stays within [60, 200]
TransportBpmInRange == bpm \in 60..200

\* C24: while a pad key is held down, PadGrid has called triggerPad for its
\* pad at most once since the keydown that began the hold, however many
\* repeated keydown events arrived
OneTriggerPerHold == \A p \in padGrid.held : padGrid.calls[p] <= 1

\* C25: moving the Mixer's master slider to v leaves the engine's master
\* volume at v
MasterSliderSetsEngine ==
    [][\A v \in SliderValues :
          HandleMasterVolumeChange(v) => DbToGain(destination') = v]_vars

\* C26: + sets the engine's BPM to min(200, getBPM() + 1) and - sets it to
\* max(60, getBPM() - 1), for the BPM the engine has at the click
BpmButtonsStepEngine ==
    [][/\ HandleBpmPlus => bpm' = Min(200, bpm + 1)
       /\ HandleBpmMinus => bpm' = Max(60, bpm - 1)]_vars

\* C27: a click on the play button calls pause() when the engine is playing
\* at the click and play() when it is not
PlayButtonToggles ==
    [][HandlePlay => last'.op = (IF isPlaying THEN "pause" ELSE "play")]_vars

\* C28: the step index a recording trigger writes is the transport position
\* in 16th-note steps modulo the active pattern's length, so it lies in
\* 0..length-1
RecordedStepModuloLength ==
    [][\A p \in ModelPads, v \in TriggerVelocities :
          (RecordsStep(p, context) /\ \E th \in BOOLEAN : TriggerPad(p, v, th)) =>
             /\ last'.step = PositionInSteps % getCurrentPattern.length
             /\ last'.step \in 0..(getCurrentPattern.length - 1)]_vars

\* C29: at most one schedule is live: no sequence replaced by a rebuild is
\* left on the transport, and every tick since the latest rebuild ran one
\* callback, that of the newest sequence
OneLiveSchedule ==
    /\ sequence.stale = 0
    /\ \A i \in 1..Len(tickLog) : tickLog[i].callbacks = 1

\* a tick that triggers a pad after the sequence was rebuilt and restarted
\* while the transport was running
RebuiltTickWitness ==
    /\ last.op = "tick"
    /\ sequence.startTick > 0
    /\ tickLog[Len(tickLog)].calls # {}

\* C30: while the transport plays, a tick that follows an earlier tick (every
\* tick at a position past the start is one) carries the step after the one
\* the earlier tick carried, modulo the pattern's length, whatever toggleStep,
\* setBPM or pause() and play() did in between
CyclicStepOrder ==
    [][(Tick /\ sequence.next > 0) =>
          currentStep' = (currentStep + 1) % getCurrentPattern.length]_vars

\* halting: the transport is stopped and paused while voices the scheduler
\* started are still ahead of their sounding time
NextHalt ==
    \/ \E p \in LoadPads, f \in GoodFiles : LoadSampleAlone(p, f)
    \/ \E p \in LoadPads : \E k \in DOMAIN loads[p] : LoadRead(p, k)
    \/ \E p \in LoadPads : \E k \in DOMAIN loads[p] : LoadResume(p, k, TRUE)
    \/ \E p \in LoadPads : \E k \in DOMAIN loads[p] : LoadDecode(p, k)
    \/ \E p \in LoadPads : \E k \in DOMAIN loads[p] : LoadCommit(p, k)
    \/ \E p \in BagToSet(timers)  : TestPadAudio(p, FALSE)
    \/ \E c \in VelocityCells : ToggleStep(c[1], c[2])
    \/ Play
    \/ Stop
    \/ Pause
    \/ StartRecording
    \/ Tick
    \/ Advance
    \/ \E p \in LoadPads : VoiceBegin(p)
    \/ \E p \in LoadPads : VoiceEnd(p)

SpecHalt == Init /\ [][NextHalt]_vars

\* C31: from stop() or pause() until the next play() or startRecording(), that
\* is while the engine is not playing, no tick runs, nothing changes
\* currentStep but stop() itself, and no voice a tick started ahead of time
\* begins to sound
HaltedSchedulerSilent ==
    [][~isPlaying =>
          /\ ~Tick
          /\ currentStep' # currentStep => last'.op = "stop"
          /\ \A p \in LoadPads : ~(VoiceBegin(p) /\ players[p].ahead = "tick")]_vars

\* a file that decodes to an audio buffer of duration 0
EmptyFiles ==
    { [name |-> "empty.wav", readable |-> TRUE, decodable |-> TRUE, duration |-> 0] }

\* triggers on a pad whose trim sliders are moved to any window, valid, empty
\* or inverted, and whose buffer may have no duration, while recording or not
NextSkip ==
    \/ \E p \in LoadPads, f \in GoodFiles \cup EmptyFiles : LoadSampleAlone(p, f)
    \/ \E p \in LoadPads : \E k \in DOMAIN loads[p] : LoadRead(p, k)
    \/ \E p \in LoadPads : \E k \in DOMAIN loads[p] : LoadResume(p, k, TRUE)
    \/ \E p \in LoadPads : \E k \in DOMAIN loads[p] : LoadDecode(p, k)
    \/ \E p \in LoadPads : \E k \in DOMAIN loads[p] : LoadCommit(p, k)
    \/ \E p \in BagToSet(timers)  : TestPadAudio(p, FALSE)
    \/ \E p \in LoadPads, v \in TriggerVelocities : TriggerPad(p, v, FALSE)
    \/ \E p \in LoadPads, v \in SliderValues : SetSampleProperty(p, "startTime", v)
    \/ \E p \in LoadPads, v \in SliderValues : SetSampleProperty(p, "endTime", v)
    \/ StartRecording
    \/ Stop

SpecSkip == Init /\ [][NextSkip]_vars

\* C32: triggerPad on a loaded pad whose trim window is empty or inverted, or
\* whose buffer has no positive duration, starts no voice and leaves the
\* pad's channel, the samples, the patterns, the schedule and the transport
\* as they were
InvalidWindowSkipped ==
    [][\A p \in LoadPads, v \in TriggerVelocities :
          (/\ SamplesOf(samples)[p].buffer # NoBuffer
           /\ \/ SamplesOf(samples)[p].endTime <= SamplesOf(samples)[p].startTime
              \/ SamplesOf(samples)[p].buffer.duration <= 0
           /\ TriggerPad(p, v, FALSE)) =>
             /\ players' = players
             /\ panners' = panners
             /\ SamplesOf(samples)' = SamplesOf(samples)
             /\ PatternsOf(patterns)' = PatternsOf(patterns)
             /\ sequence' = sequence
             /\ transport' = transport
             /\ <<isPlaying, isRecording, currentStep, bpm>>'
                = <<isPlaying, isRecording, currentStep, bpm>>]_vars

\* a trigger, made while recording with the context running, on a pad whose
\* window is inverted
InvertedWindowWitness ==
    /\ last.op = "triggerPad"
    /\ last.pad = 3
    /\ context = "running"
    /\ isRecording
    /\ SamplesOf(samples)[3].buffer.duration > 0
    /\ SamplesOf(samples)[3].endTime < SamplesOf(samples)[3].startTime

\* a trigger on a pad whose buffer has duration 0 and whose window is valid
EmptyBufferWitness ==
    /\ last.op = "triggerPad"
    /\ last.pad = 3
    /\ context = "running"
    /\ SamplesOf(samples)[3].buffer # NoBuffer
    /\ SamplesOf(samples)[3].buffer.duration = 0
    /\ SamplesOf(samples)[3].startTime < SamplesOf(samples)[3].endTime

\* the pads' channels: samples load, the mixer moves volume and pan, and a
\* project is loaded
NextChannel ==
    \/ \E p \in LoadPads, f \in GoodFiles : LoadSampleAlone(p, f)
    \/ \E p \in LoadPads : \E k \in DOMAIN loads[p] : LoadRead(p, k)
    \/ \E p \in LoadPads : \E k \in DOMAIN loads[p] : LoadResume(p, k, TRUE)
    \/ \E p \in LoadPads : \E k \in DOMAIN loads[p] : LoadDecode(p, k)
    \/ \E p \in LoadPads : \E k \in DOMAIN loads[p] : LoadCommit(p, k)
    \/ \E p \in BagToSet(timers)  : TestPadAudio(p, FALSE)
    \/ \E p \in LoadPads, x \in MixInputs : SetSampleProperty(p, x[1], x[2])
    \/ ImportProject

SpecChannel == Init /\ [][NextChannel]_vars

\* C33: every pad's player is bound to exactly the buffer of the pad's stored
\* sample, none when the sample has none, and the pad's panner carries the
\* sample's pan, also after loadProject
ChannelMirrorsSample ==
    \A i \in Pads :
        /\ players[i].buffer = SamplesOf(samples)[i].buffer
        /\ panners[i] = SamplesOf(samples)[i].pan

\* values setSampleProperty is called with, inside and outside their ranges
StoreInputs == {<<"startTime", 5>>, <<"endTime", -5>>, <<"endTime", 8>>,
                <<"volume", 15>>}

\* setSampleProperty with any value, on a pad with or without a voice
\* sounding, the transport stopped or started
NextStore ==
    \/ \E p \in LoadPads, f \in GoodFiles : LoadSampleAlone(p, f)
    \/ \E p \in LoadPads : \E k \in DOMAIN loads[p] : LoadRead(p, k)
    \/ \E p \in LoadPads : \E k \in DOMAIN loads[p] : LoadResume(p, k, TRUE)
    \/ \E p \in LoadPads : \E k \in DOMAIN loads[p] : LoadDecode(p, k)
    \/ \E p \in LoadPads : \E k \in DOMAIN loads[p] : LoadCommit(p, k)
    \/ \E p \in BagToSet(timers)  : TestPadAudio(p, FALSE)
    \/ \E p \in LoadPads, v \in TriggerVelocities : TriggerPad(p, v, FALSE)
    \/ \E p \in LoadPads, x \in StoreInputs : SetSampleProperty(p, x[1], x[2])
    \/ Play
    \/ \E p \in LoadPads : VoiceEnd(p)

SpecStore == Init /\ [][NextStore]_vars

\* C34: setSampleProperty(pad, prop, value) stores value as it is in field
\* prop of the pad's sample and leaves the sample's other fields, the other
\* pads' samples, the patterns and the transport alone; a startTime or
\* endTime change leaves every player, sounding or not, as it was, and the
\* next trigger that plays the pad starts at the stored window
StoreOnly ==
    [][/\ \A p \in LoadPads, x \in StoreInputs :
             SetSampleProperty(p, x[1], x[2]) =>
                /\ SamplesOf(samples)'[p][x[1]] = x[2]
                /\ \A f \in DOMAIN SamplesOf(samples)[p] \ {x[1]} :
                      SamplesOf(samples)'[p][f] = SamplesOf(samples)[p][f]
                /\ \A q \in Pads \ {p} : SamplesOf(samples)'[q] = SamplesOf(samples)[q]
                /\ PatternsOf(patterns)' = PatternsOf(patterns)
                /\ <<currentPattern, isPlaying, isRecording, currentStep, bpm,
                     sequence, transport>>'
                   = <<currentPattern, isPlaying, isRecording, currentStep, bpm,
                       sequence, transport>>
                /\ x[1] \in {"startTime", "endTime"} => players' = players
       /\ \A p \in LoadPads, v \in TriggerVelocities :
             (TriggerPad(p, v, FALSE) /\ TriggerOutcome(p, context) = "played") =>
                /\ players'[p].offset = Max(0, SamplesOf(samples)[p].startTime * 20)
                /\ players'[p].offset + players'[p].duration
                   = SamplesOf(samples)[p].endTime * 20]_vars

\* endTime was set to -0.5, unclamped, while a voice started with the
\* earlier window is sounding
StoreWhileSoundingWitness ==
    /\ last = Op("setSampleProperty", 3, -1, -5)
    /\ SamplesOf(samples)[3].endTime = -5
    /\ players[3].state = "started"
    /\ players[3].duration > 0

\* a trigger that plays the window stored while the previous voice sounded
StoredWindowPlayedWitness ==
    /\ last.op = "triggerPad"
    /\ SamplesOf(samples)[3].startTime = 5
    /\ SamplesOf(samples)[3].endTime = 8
    /\ players[3].cut
    /\ players[3].offset = 100
    /\ players[3].duration = 60

\* C35: a tick, whose triggerPad calls carry a scheduled time, writes to no
\* pattern, recording or not
TickWritesNoPattern ==
    [][Tick => patternsHeap' = patternsHeap]_vars

\* while recording, a tick has played back the step a manual trigger recorded
RecordedPlaybackWitness ==
    /\ last.op = "tick"
    /\ isRecording
    /\ <<3, 6>> \in tickLog[Len(tickLog)].calls
    /\ players[3].ahead = "tick"

\* cells of one step on three pads, of which only pad 3 gets a sample
FaultCells == {<<1, 0>>, <<3, 0>>, <<5, 0>>}

\* ticks over a step that is active on empty pads and on a pad that may be
\* empty, loaded, loaded with a buffer of no duration, trimmed to an empty
\* window or have a player that throws, with the context running or not; the
\* cells are set before play() (an edit while playing rebuilds the sequence)
NextFault ==
    \/ \E p \in LoadPads, f \in GoodFiles \cup EmptyFiles : LoadSampleAlone(p, f)
    \/ \E p \in LoadPads : \E k \in DOMAIN loads[p] : LoadRead(p, k)
    \/ \E p \in LoadPads : \E k \in DOMAIN loads[p] : LoadResume(p, k, TRUE)
    \/ \E p \in LoadPads : \E k \in DOMAIN loads[p] : LoadDecode(p, k)
    \/ \E p \in LoadPads : \E k \in DOMAIN loads[p] : LoadCommit(p, k)
    \/ \E c \in FaultCells : ~isPlaying /\ ToggleStep(c[1], c[2])
    \/ \E p \in LoadPads : SetSampleProperty(p, "endTime", 0)
    \/ Play
    \/ \E thrown \in SUBSET LoadPads : TickWith(thrown)
    \/ ContextSuspend
    \/ TickSuspended
    \/ \E r \in BagToSet(retries), ok \in BOOLEAN, th \in BOOLEAN :
          TimedRetry(r[1], r[2], ok, th)
    \/ Advance

SpecFault == Init /\ [][NextFault]_vars

\* C36: a triggerPad call of a tick that fails or is skipped (empty pad, empty
\* trim window, buffer of no positive duration, context not running, or a
\* player that throws) does not end the tick: every pad active at the step
\* gets its call, the pads that can play and do not throw start their voice,
\* a call that found the context not running has left its continuation and
\* changed no player, and the sequence stays live and started with its next
\* event one step on
TickSurvivesFailures ==
    [][last'.op = "tick" =>
          /\ \A thrown \in SUBSET LoadPads :
                TickWith(thrown) =>
                   \A p \in Pads :
                      (/\ ArrayGet(SequencePattern.steps[p], SequenceStep(sequence), FALSE)
                       /\ TriggerOutcome(p, context) = "played"
                       /\ p \notin thrown) =>
                         /\ players'[p].state = "started"
                         /\ players'[p].ahead = "tick"
          /\ TickSuspended =>
                /\ players' = players
                /\ \A p \in Pads :
                      (/\ ArrayGet(SequencePattern.steps[p], SequenceStep(sequence), FALSE)
                       /\ SamplesOf(samples)[p].buffer # NoBuffer) =>
                         BagIn(<<p, SequencePattern.velocities[p][SequenceStep(sequence)],
                                 "timed">>, retries')
          /\ ((\E thrown \in SUBSET LoadPads : TickWith(thrown)) \/ TickSuspended) =>
                /\ \A p \in Pads :
                      ArrayGet(SequencePattern.steps[p], SequenceStep(sequence), FALSE) =>
                         \E c \in tickLog'[Len(tickLog')].calls : c[1] = p
                /\ sequence'.live
                /\ sequence'.started
                /\ sequence'.next = sequence.next + StepTicks
                /\ transport' = transport
                /\ isPlaying' = isPlaying]_vars

\* a tick in which the call for the empty pad 1 was skipped, the player of
\* pad 3 threw, and the empty pad 5 still got its call
ThrownInTickWitness ==
    /\ last.op = "tick"
    /\ SamplesOf(samples)[3].buffer # NoBuffer
    /\ SamplesOf(samples)[3].startTime < SamplesOf(samples)[3].endTime
    /\ players[3].state = "stopped"
    /\ players[3].gain = FinalGain(DefaultVelocity, DefaultVolume)
    /\ {c[1] : c \in tickLog[Len(tickLog)].calls} = {1, 3, 5}

\* a tick with the context suspended: the call for pad 3 left its continuation
\* and the empty pad 5 still got its call
SuspendedTickWitness ==
    /\ last.op = "tick"
    /\ context = "suspended"
    /\ BagIn(<<3, DefaultVelocity, "timed">>, retries)
    /\ {c[1] : c \in tickLog[Len(tickLog)].calls} = {1, 3, 5}

\* a tick over pad 3 holding a buffer of duration 0: its call was skipped and
\* pad 5 still got its call
EmptyBufferTickWitness ==
    /\ last.op = "tick"
    /\ context = "running"
    /\ SamplesOf(samples)[3].buffer # NoBuffer
    /\ SamplesOf(samples)[3].buffer.duration = 0
    /\ players[3].state = "stopped"
    /\ {c[1] : c \in tickLog[Len(tickLog)].calls} = {3, 5}

\* the continuation of a call a tick made with the context suspended has
\* run with the context resumed, and started the voice
TimedRetryPlayedWitness ==
    /\ last = Op("retry", 3, -1, DefaultVelocity)
    /\ players[3].state = "started"
    /\ players[3].ahead = "tick"
    /\ retries = EmptyBag
    /\ context = "running"

\* a tick in which the call for the empty pad 1 was skipped and pad 3 played
SkippedThenPlayedWitness ==
    /\ last.op = "tick"
    /\ players[3].ahead = "tick"
    /\ {c[1] : c \in tickLog[Len(tickLog)].calls} = {1, 3}

\* C37: in every reachable state the engine records only while it plays:
\* isRecording implies isPlaying
RecordingImpliesPlaying == isRecording => isPlaying

\* pattern bank operations with any index, edits, transport operations and
\* loadProject of the Project values exportProject returned
NextIndex ==
    \/ InitAudio
    \/ ToggleStep(3, 0)
    \/ AddPattern
    \/ \E i \in PatternIndexInputs : SetCurrentPattern(i)
    \/ Play
    \/ Stop
    \/ Pause
    \/ ExportProject
    \/ \E k \in 1..Len(exported) : LoadProject(k)

SpecIndex == Init /\ [][NextIndex]_vars

\* C38: in every reachable state the active pattern index is an index of the
\* pattern array, so getCurrentPattern() returns a pattern
CurrentPatternInRange ==
    /\ currentPattern >= 0
    /\ currentPattern < NumPatterns
    /\ getCurrentPattern.length > 0

\* a Project value exported while the second pattern was active is loaded
\* after the engine went back to the first pattern
StaleProjectLoadedWitness ==
    /\ last.op = "loadProject"
    /\ last.step = 0
    /\ currentPattern = 1
    /\ NumPatterns >= 2

\* a setCurrentPattern with an index outside the pattern array was refused
IndexRefusedWitness ==
    /\ last.op = "setCurrentPattern"
    /\ (last.val < 0 \/ last.val >= NumPatterns)
    /\ currentPattern # last.val

\* C39: no step of loadSample, and nothing it schedules for later (the test
\* trigger of testPadAudio), changes the steps or velocities of any pattern,
\* also while recording
LoadSampleLeavesPatterns ==
    [][(\E p \in LoadPads :
           \/ \E f \in GoodFiles : LoadSampleAlone(p, f)
           \/ \E k \in DOMAIN loads[p] :
                 \/ LoadRead(p, k)
                 \/ LoadResume(p, k, TRUE)
                 \/ LoadDecode(p, k)
                 \/ LoadCommit(p, k)
           \/ \E th \in BOOLEAN : TestPadAudio(p, th))
          => patternsHeap' = patternsHeap]_vars

(***************************************************************************)
(* A project file whose currentPattern is not an index of its patterns.    *)
(* loadProject runs its assignments and the rewiring, then updateSequence  *)
(* disposes the schedule and throws on pattern.length; importProject       *)
(* catches the exception and reports the import as failed.  After it       *)
(* getCurrentPattern() is undefined, so the action is kept out of Next.    *)
(***************************************************************************)
BadIndexProject ==
    [id |-> 0, name |-> "Imported", samples |-> NewRef, patterns |-> NewRef,
     currentPattern |-> 1, bpm |-> 100]

\* the part of loadProject(project) that runs before updateSequence throws
loadProjectThrows(project, sh, ph) ==
    /\ samplesHeap' = Collect(sh, LiveRefs(project.samples, exported))
    /\ patternsHeap' = Collect(ph, LiveRefs(project.samples, exported))
    /\ samples' = project.samples
    /\ patterns' = project.patterns
    /\ currentPattern' = loadedCurrentPattern(project)
    /\ bpm' = loadedBpm(project)
    /\ transport' = [transport EXCEPT !.bpm = loadedBpm(project)]
    /\ players' = rewiredPlayers(sh[project.samples])
    /\ sequence' = [sequence EXCEPT !.live = FALSE]
    /\ UNCHANGED <<destination, viewVars>>
    /\ UNCHANGED <<isPlaying, isRecording, currentStep, panners, context, loads,
                   timers, retries, nextBuffer, exported, tickLog, now>>

\* FileManager.importProject on that file: loadProject throws, the catch alerts
ImportProjectBadIndex ==
    /\ ~(BadIndexProject.currentPattern \in 0..(Len0(Filled(1, ImportedPattern)) - 1))
    /\ loadProjectThrows(BadIndexProject,
                         Store(samplesHeap, NewRef, ImportedSamples),
                         Store(patternsHeap, NewRef, Filled(1, ImportedPattern)))
    /\ last' = Op("importFailed", -1, -1, -1)

\* the operations that set what loadProject replaces, and the failing import
NextImport ==
    \/ AddPattern
    \/ \E i \in PatternIndexInputs : SetCurrentPattern(i)
    \/ \E b \in BpmInputs : SetBPM(b)
    \/ \E p \in LoadPads, x \in MixInputs : SetSampleProperty(p, x[1], x[2])
    \/ ImportProject
    \/ ImportProjectBadIndex

SpecImport == Init /\ [][NextImport]_vars

\* C40: an import that fails leaves the engine's samples, patterns, active
\* pattern index and BPM as they were before the call
FailedImportChangesNothing ==
    [][ImportProjectBadIndex =>
          /\ samplesHeap'[samples'] = samplesHeap[samples]
          /\ patternsHeap'[patterns'] = patternsHeap[patterns]
          /\ currentPattern' = currentPattern
          /\ bpm' = bpm]_vars

====
